---- MODULE Spec2Model ----
(***************************************************************************)
(* Model of the memory / context layer of the bot: BotMemory (memory.py),  *)
(* GroupContextManager (group_context.py) and handle_message (bot.py), and *)
(* of its two lookup engines: TavilySearchEngine (tavily_search.py) and    *)
(* RSSNewsEngine (rss_news.py).                                            *)
(*                                                                         *)
(* Text is a sequence of one-character strings.  The Cyrillic letters of   *)
(* the source are written with one ASCII letter each:                      *)
(*   a=а b=б v=в d=д e=е j=ж z=з i=и k=к l=л m=м n=н o=о p=п r=р s=с t=т   *)
(*   u=у x=ь y=ю q=я ; an upper-case ASCII letter is the upper-case        *)
(*   Cyrillic letter.                                                      *)
(* datetime.now() is the variable clock: every read returns the current    *)
(* value and advances it (two reads are always separated by an await on    *)
(* the store or the network).                                              *)
(***************************************************************************)
EXTENDS Integers, Sequences, FiniteSets, TLC

VARIABLES
    clock,          \* datetime.now()
    short_term,     \* BotMemory.short_term: user_id -> deque(maxlen=10)
    user_memory,    \* table user_memory: user_id -> row
    user_history,   \* GroupContextManager.user_history[chat_id][user_id]
    chat_history,   \* GroupContextManager.chat_history[chat_id]
    st_log,         \* history: every turn ever passed to add_to_short_term
    chat_log,       \* history: every message ever passed to add_message
    last,           \* the operation that ran last, with its arguments
    ret,            \* what it returned
    raised,         \* the exception that left it ("none" when it returned)
    sent,           \* the messages it sent to the chat
    handled,        \* the number of updates handle_message has taken
    in_flight,      \* the remember_fact calls suspended between SELECT and upsert
    today,          \* datetime.now().date(): year, month, day
    tavily,         \* TavilySearchEngine: client, monthly_queries, last_reset
    rss,            \* RSSNewsEngine: queries_today, last_reset
    fetching        \* the get_latest_news calls suspended in a feed fetch

\* what the operations of the memory layer never touch
engine_vars == <<in_flight, today, tavily, rss, fetching>>

vars == <<clock, short_term, user_memory, user_history, chat_history,
          st_log, chat_log, last, ret, raised, sent, handled, engine_vars>>

-----------------------------------------------------------------------------
(* Bounds *)

MaxTurns == 12      \* add_to_short_term calls in one behaviour
MaxOther == 2       \* of these, calls that are not a "user" turn of the first user
MaxFactOps == 3     \* remember_fact calls in one behaviour
MaxExtracts == 3    \* facts stored by extraction in one behaviour
MaxAdds == 31       \* tracker operations in one behaviour
MaxVaried == 1      \* of these, operations other than a message of the first user
MaxCtxAdds == 3     \* messages added to the tracker in a short behaviour
MaxUpdates == 2     \* updates handled by handle_message in one behaviour
MaxDbOps == 3       \* store operations that succeed before an outage
MaxCalls == 2       \* calls of one coroutine that can be suspended at the same time
MaxMonth == 2       \* the last month of a year that the calendar reaches
MaxYear == 2        \* the last year that the calendar reaches
MaxRaw == 3         \* raw results of any kind in one response of the search client
MaxSearches == 1    \* searches counted in a behaviour that varies the raw results
MaxDay == 2         \* the last day of a month that the calendar reaches
MaxNews == 1        \* news queries counted in a behaviour that varies the feeds
MaxRaceOps == 2     \* remember_fact calls begun in a behaviour with overlapping calls

-----------------------------------------------------------------------------
(* Python str methods, on sequences of characters *)

UpperCase == <<"A","B","V","D","E","J","Z","I","K","L","M","N","O","P","R","S","T","U","X","Y","Q">>
LowerCase == <<"a","b","v","d","e","j","z","i","k","l","m","n","o","p","r","s","t","u","x","y","q">>

IndexIn(c, alphabet) ==
    IF \E i \in 1..Len(alphabet) : alphabet[i] = c
    THEN CHOOSE i \in 1..Len(alphabet) : alphabet[i] = c
    ELSE 0

LowerChar(c) == IF IndexIn(c, UpperCase) > 0 THEN LowerCase[IndexIn(c, UpperCase)] ELSE c
UpperChar(c) == IF IndexIn(c, LowerCase) > 0 THEN UpperCase[IndexIn(c, LowerCase)] ELSE c

\* str.lower()
Lower(s) == [i \in 1..Len(s) |-> LowerChar(s[i])]

\* str.capitalize()
Capitalize(s) == [i \in 1..Len(s) |-> IF i = 1 THEN UpperChar(s[i]) ELSE LowerChar(s[i])]

\* s[a:b] with 0-based a, b as in Python (0 <= a)
Slice(s, a, b) ==
    LET hi == IF b > Len(s) THEN Len(s) ELSE b
    IN  IF a >= hi THEN <<>> ELSE [i \in 1..(hi - a) |-> s[a + i]]

\* s.startswith(p, k): p occurs in s at 0-based offset k
OccursAt(s, p, k) ==
    /\ k + Len(p) <= Len(s)
    /\ \A i \in 1..Len(p) : s[k + i] = p[i]

\* s.find(p, from): 0-based offset of the first occurrence at or after from, -1 if none
FindFrom(s, p, from) ==
    LET hits == {k \in from..(Len(s) - Len(p)) : OccursAt(s, p, k)}
    IN  IF hits = {} THEN -1 ELSE CHOOSE k \in hits : \A h \in hits : k <= h

Find(s, p) == FindFrom(s, p, 0)

\* p in s
Contains(s, p) == Find(s, p) >= 0

\* s.split(p): the pieces between the non-overlapping occurrences of p, left to right
RECURSIVE SplitOn(_, _)
SplitOn(s, p) ==
    LET k == Find(s, p)
    IN  IF k < 0 THEN <<s>>
        ELSE <<Slice(s, 0, k)>> \o SplitOn(Slice(s, k + Len(p), Len(s)), p)

\* s.strip(chars)
RECURSIVE LStrip(_, _)
LStrip(s, chars) ==
    IF s # <<>> /\ Head(s) \in chars THEN LStrip(Tail(s), chars) ELSE s

RECURSIVE RStrip(_, _)
RStrip(s, chars) ==
    IF s # <<>> /\ s[Len(s)] \in chars THEN RStrip(SubSeq(s, 1, Len(s) - 1), chars) ELSE s

StripChars(s, chars) == RStrip(LStrip(s, chars), chars)

Whitespace == {" "}

\* s.strip()
Strip(s) == StripChars(s, Whitespace)

\* s.split(): the maximal runs of non-whitespace characters
RECURSIVE Words(_)
Words(s) ==
    LET t == LStrip(s, Whitespace)
        ends == {k \in 1..Len(t) : t[k] \in Whitespace}
        stop == IF ends = {} THEN Len(t) + 1 ELSE CHOOSE k \in ends : \A e \in ends : k <= e
    IN  IF t = <<>> THEN <<>>
        ELSE <<SubSeq(t, 1, stop - 1)>> \o Words(SubSeq(t, stop, Len(t)))

\* s.replace(p, "")
RECURSIVE Remove(_, _)
Remove(s, p) ==
    LET k == Find(s, p)
    IN  IF k < 0 THEN s
        ELSE Slice(s, 0, k) \o Remove(Slice(s, k + Len(p), Len(s)), p)

\* the last n elements of a sequence: list(d)[-n:] for n > 0
LastN(s, n) == IF Len(s) <= n THEN s ELSE SubSeq(s, Len(s) - n + 1, Len(s))

\* deque(maxlen=cap).append(x)
DequeAppend(d, x, cap) ==
    IF Len(d) >= cap THEN Append(Tail(d), x) ELSE Append(d, x)

-----------------------------------------------------------------------------
(* Python dict: the key/value pairs in insertion order *)

DictKeys(d) == {d[i][1] : i \in 1..Len(d)}

DictPos(d, k) == CHOOSE i \in 1..Len(d) : d[i][1] = k

DictGet(d, k) == d[DictPos(d, k)][2]

\* d[k] = v
DictSet(d, k, v) ==
    IF k \in DictKeys(d)
    THEN [d EXCEPT ![DictPos(d, k)] = <<k, v>>]
    ELSE Append(d, <<k, v>>)

\* json.dumps of a fact mapping: the members in order, each as the text triple
\* key, value, updated
json_dumps(d) == [i \in 1..Len(d) |-> <<d[i][1], d[i][2].value, d[i][2].updated>>]

\* json.loads of such a text
json_loads(t) == [i \in 1..Len(t) |-> <<t[i][1], [value |-> t[i][2], updated |-> t[i][3]]>>]

\* list[-n:]
PyLast(s, n) ==
    IF n > 0 THEN LastN(s, n)
    ELSE IF n = 0 THEN s
    ELSE Slice(s, 0 - n, Len(s))

\* a mapping with one more key (or one key rebound)
Bind(f, k, v) == [x \in DOMAIN f \cup {k} |-> IF x = k THEN v ELSE f[x]]

\* the mapping without keys: {}
Empty == [x \in {} |-> <<>>]

-----------------------------------------------------------------------------
(* memory.py: BotMemory *)

max_short_term == 10

UserIds == {1, 2}
Roles == {"user", "assistant"}

Privet == <<"p","r","i","v","e","t">>
Parij == <<"P","a","r","i","j">>
Lion == <<"L","i","o","n">>
Anna == <<"A","n","n","a">>

\* add_to_short_term on a plain list: nothing is evicted
add_to_short_term_unbounded(st, user_id, role, message, now) ==
    LET d == IF user_id \in DOMAIN st THEN st[user_id] ELSE <<>>
        turn == [role |-> role, content |-> message, timestamp |-> now]
    IN  Bind(st, user_id, Append(d, turn))

\* BotMemory.add_to_short_term: the new value of short_term
add_to_short_term(st, user_id, role, message, now) ==
    LET d == IF user_id \in DOMAIN st THEN st[user_id] ELSE <<>>
        turn == [role |-> role, content |-> message, timestamp |-> now]
    IN  Bind(st, user_id, DequeAppend(d, turn, max_short_term))

\* BotMemory.get_short_term
get_short_term(st, user_id, limit) ==
    IF user_id \notin DOMAIN st THEN <<>> ELSE PyLast(st[user_id], limit)

\* one rendered line: the label and the text after it
Line(label, body) == <<label, body>>

\* memory.py 71: msg['content'][:100]
content_limit == 100

\* get_conversation_context that renders every turn it has read
get_conversation_context_all(st, user_id, max_messages) ==
    LET recent == get_short_term(st, user_id, max_messages)
    IN  IF recent = <<>> THEN <<>>
        ELSE <<Line("Poslednie soobscheniya v dialoge:", <<>>)>> \o
             [i \in 1..Len(recent) |->
                 Line(IF recent[i].role = "user" THEN "Polzovatel" ELSE "Shmel",
                      Slice(recent[i].content, 0, content_limit))]

\* BotMemory.get_conversation_context: "" is the text without lines
get_conversation_context(st, user_id, max_messages) ==
    LET recent == get_short_term(st, user_id, max_messages)
        shown == SubSeq(recent, 1, Len(recent) - 1)
    IN  IF recent = <<>> THEN <<>>
        ELSE <<Line("Poslednie soobscheniya v dialoge:", <<>>)>> \o
             [i \in 1..Len(shown) |->
                 Line(IF shown[i].role = "user" THEN "Polzovatel" ELSE "Shmel",
                      Slice(shown[i].content, 0, content_limit))]

\* the SELECT of remember_fact and get_user_facts, decoded
stored_facts(tbl, user_id) ==
    IF user_id \in DOMAIN tbl THEN json_loads(tbl[user_id].facts) ELSE <<>>

\* an upsert that counts only the insert
next_total_messages_kept(tbl, user_id) ==
    IF user_id \in DOMAIN tbl THEN tbl[user_id].total_messages ELSE 1

\* memory.py 92-99: total_messages of the upserted row, 1 on insert (the
\* column's default) and total_messages + 1 on conflict
next_total_messages(tbl, user_id) ==
    IF user_id \in DOMAIN tbl THEN tbl[user_id].total_messages + 1 ELSE 1

\* remember_fact that does not merge with the stored mapping
remember_fact_fresh(tbl, user_id, fact_key, fact_value, now) ==
    LET facts == DictSet(<<>>, fact_key, [value |-> fact_value, updated |-> now])
        count == next_total_messages(tbl, user_id)
    IN  Bind(tbl, user_id,
             [facts |-> json_dumps(facts), last_seen |-> now + 1, total_messages |-> count])

\* BotMemory.remember_fact when the store answers: the new table.
\* now is read for the fact, now + 1 for last_seen.
remember_fact(tbl, user_id, fact_key, fact_value, now) ==
    LET facts == DictSet(stored_facts(tbl, user_id), fact_key,
                         [value |-> fact_value, updated |-> now])
        count == next_total_messages(tbl, user_id)
    IN  Bind(tbl, user_id,
             [facts |-> json_dumps(facts), last_seen |-> now + 1, total_messages |-> count])

\* memory.py 78-90: what a call holds when it suspends before the upsert, the
\* mapping read by the SELECT with the new fact set in it
remember_select(tbl, user_id, fact_key, fact_value, now) ==
    DictSet(stored_facts(tbl, user_id), fact_key, [value |-> fact_value, updated |-> now])

\* memory.py 92-101: the upsert and commit of a call that holds facts
remember_upsert(tbl, user_id, facts, now) ==
    Bind(tbl, user_id,
         [facts |-> json_dumps(facts), last_seen |-> now,
          total_messages |-> next_total_messages(tbl, user_id)])

\* BotMemory.get_user_facts
get_user_facts(tbl, user_id) == stored_facts(tbl, user_id)

\* get_user_context that has nothing to say of a user whose name is unknown
memory_get_user_context_named(tbl, user_id) ==
    LET facts == get_user_facts(tbl, user_id)
    IN  IF "name" \notin DictKeys(facts) THEN <<>>
        ELSE <<Line("Chto ya znayu o polzovatele:", <<>>)>> \o
             [i \in 1..Len(facts) |-> Line(facts[i][1], facts[i][2].value)]

\* BotMemory.get_user_context
memory_get_user_context(tbl, user_id) ==
    LET facts == get_user_facts(tbl, user_id)
    IN  IF facts = <<>> THEN <<>>
        ELSE <<Line("Chto ya znayu o polzovatele:", <<>>)>> \o
             [i \in 1..Len(facts) |->
                 LET key == facts[i][1]
                     value == facts[i][2].value
                 IN  IF key = "name" THEN Line("- Ego/ee zovut", value)
                     ELSE IF key = "city" THEN Line("- On/ona iz", value)
                     ELSE IF key = "interest" THEN Line("- On/ona interesuetsya", value)
                     ELSE Line(key, value)]

\* the trigger phrases of extract_facts_from_message
menya_zovut == <<"m","e","n","q"," ","z","o","v","u","t">>
ya_iz == <<"q"," ","i","z">>
jivu_v == <<"j","i","v","u"," ","v">>
prep_iz == <<"i","z">>
prep_v == <<"v">>
interests == << <<"l","y","b","l","y">>,
                <<"n","r","a","v","i","t","s","q">>,
                <<"u","v","l","e","k","a","y","s","x">>,
                <<"r","a","b","o","t","a","y">> >>

\* memory.py 122-126: the name branch.  error: split()[0] on a text without a token
name_facts(message_lower) ==
    IF ~Contains(message_lower, menya_zovut) THEN [error |-> "none", calls |-> <<>>]
    ELSE LET parts == SplitOn(message_lower, menya_zovut)
             tokens == Words(Strip(parts[2]))
         IN  IF tokens = <<>> THEN [error |-> "IndexError", calls |-> <<>>]
             ELSE [error |-> "none", calls |-> << <<"name", Capitalize(tokens[1])>> >>]

\* the loop that measures the word before the punctuation is stripped
RECURSIVE city_loop_unstripped(_, _)
city_loop_unstripped(words, i) ==
    IF i > Len(words) THEN <<>>
    ELSE (IF words[i] \in {prep_iz, prep_v} /\ i + 1 <= Len(words) /\ Len(words[i + 1]) > 2
          THEN << <<"city", Capitalize(StripChars(words[i + 1], {".", ",", "!", "?"}))>> >>
          ELSE <<>>)
         \o city_loop_unstripped(words, i + 1)

\* memory.py 130-134: the loop over the words, from word i on
RECURSIVE city_loop(_, _)
city_loop(words, i) ==
    IF i > Len(words) THEN <<>>
    ELSE LET city == Capitalize(StripChars(words[i + 1], {".", ",", "!", "?"}))
         IN  (IF words[i] \in {prep_iz, prep_v} /\ i + 1 <= Len(words) /\ Len(city) > 2
              THEN << <<"city", city>> >> ELSE <<>>)
             \o city_loop(words, i + 1)

\* memory.py 128-134: the city branch
city_facts(message_lower) ==
    IF Contains(message_lower, ya_iz) \/ Contains(message_lower, jivu_v)
    THEN city_loop(Words(message_lower), 1)
    ELSE <<>>

\* the interest branch that stops at the first verb that gives an interest
RECURSIVE interest_loop_first(_, _, _)
interest_loop_first(message, message_lower, k) ==
    IF k > Len(interests) THEN <<>>
    ELSE LET interest == interests[k]
             idx == Find(message_lower, interest) + Len(interest)
             topic == Strip(SplitOn(SplitOn(Slice(message, idx, Len(message)), <<".">>)[1], <<",">>)[1])
         IN  IF Contains(message_lower, interest) /\ idx < Len(message_lower) /\ Len(topic) > 3
             THEN << <<"interest", topic>> >>
             ELSE interest_loop_first(message, message_lower, k + 1)

\* memory.py 136-143: the interest branch, from the k-th verb on
RECURSIVE interest_loop(_, _, _)
interest_loop(message, message_lower, k) ==
    IF k > Len(interests) THEN <<>>
    ELSE LET interest == interests[k]
             idx == Find(message_lower, interest) + Len(interest)
             topic == Strip(SplitOn(SplitOn(Slice(message, idx, Len(message)), <<".">>)[1], <<",">>)[1])
         IN  (IF Contains(message_lower, interest) /\ idx < Len(message_lower) /\ Len(topic) > 3
              THEN << <<"interest", topic>> >> ELSE <<>>)
             \o interest_loop(message, message_lower, k + 1)

\* BotMemory.extract_facts_from_message: the remember_fact calls it makes, in
\* order, and the exception it raises by itself before making any
extract_facts_from_message(message) ==
    LET message_lower == Lower(message)
        name == name_facts(message_lower)
    IN  IF name.error # "none" THEN name
        ELSE [error |-> "none",
              calls |-> name.calls \o city_facts(message_lower)
                        \o interest_loop(message, message_lower, 1)]

\* the first n remember_fact calls of a list, each reading the clock twice
RECURSIVE remember_all(_, _, _, _, _)
remember_all(tbl, user_id, calls, n, now) ==
    IF n = 0 \/ calls = <<>> THEN tbl
    ELSE remember_all(remember_fact(tbl, user_id, Head(calls)[1], Head(calls)[2], now),
                      user_id, Tail(calls), n - 1, now + 2)

Min(a, b) == IF a < b THEN a ELSE b

-----------------------------------------------------------------------------
(* group_context.py: GroupContextManager *)

max_history_per_user == 10
max_chat_history == 30

\* Optional[int]: None is no user id
None == -1

\* the truth value Python gives an Optional[int]
Truthy(x) == x # None /\ x # 0

BlankLine == Line("", <<>>)

\* the lines a text contributes to an f-string: "" is one empty line
LinesOf(text) == IF text = <<>> THEN <<BlankLine>> ELSE text

\* defaultdict.__getitem__ on user_history: a missing chat gets an empty mapping
touch_users(uh, chat_id) == IF chat_id \in DOMAIN uh THEN uh ELSE Bind(uh, chat_id, Empty)

\* defaultdict.__getitem__ on chat_history: a missing chat gets an empty deque
touch_chat(ch, chat_id) == IF chat_id \in DOMAIN ch THEN ch ELSE Bind(ch, chat_id, <<>>)

\* add_message with one sequence shared by the users of a chat
add_message_user_shared(uh, chat_id, user_id, message, is_bot_response, now) ==
    LET users == touch_users(uh, chat_id)[chat_id]
        entry == [text |-> message, timestamp |-> now, is_bot |-> is_bot_response]
        all == IF user_id \in DOMAIN users THEN users ELSE Bind(users, user_id, <<>>)
    IN  Bind(uh, chat_id,
             [u \in DOMAIN all |-> DequeAppend(all[u], entry, max_history_per_user)])

\* GroupContextManager.add_message: the new user_history
add_message_user(uh, chat_id, user_id, message, is_bot_response, now) ==
    LET users == touch_users(uh, chat_id)[chat_id]
        d == IF user_id \in DOMAIN users THEN users[user_id] ELSE <<>>
        entry == [text |-> message, timestamp |-> now, is_bot |-> is_bot_response]
    IN  Bind(uh, chat_id, Bind(users, user_id, DequeAppend(d, entry, max_history_per_user)))

\* add_message on a chat sequence that refuses new entries when full
add_message_chat_keep_oldest(ch, chat_id, user_id, user_name, message, is_bot_response, now) ==
    LET entry == [user_id |-> user_id, user_name |-> user_name, text |-> message,
                  timestamp |-> now, is_bot |-> is_bot_response]
        d == touch_chat(ch, chat_id)[chat_id]
    IN  Bind(ch, chat_id, IF Len(d) >= max_chat_history THEN d ELSE Append(d, entry))

\* GroupContextManager.add_message: the new chat_history
add_message_chat(ch, chat_id, user_id, user_name, message, is_bot_response, now) ==
    LET entry == [user_id |-> user_id, user_name |-> user_name, text |-> message,
                  timestamp |-> now, is_bot |-> is_bot_response]
    IN  Bind(ch, chat_id, DequeAppend(touch_chat(ch, chat_id)[chat_id], entry, max_chat_history))

\* GroupContextManager.get_user_context: the text
get_user_context(uh, chat_id, user_id, max_messages) ==
    LET users == touch_users(uh, chat_id)[chat_id]
        history == IF user_id \in DOMAIN users THEN users[user_id] ELSE <<>>
        shown == PyLast(history, max_messages)
    IN  IF history = <<>> THEN <<>>
        ELSE <<Line("Istoriya vashego obscheniya so mnoy:", <<>>)>> \o
             [i \in 1..Len(shown) |->
                 Line(IF shown[i].is_bot THEN "Ya" ELSE "Vy", Slice(shown[i].text, 0, 100))]

\* group_context.py 122-126: the loop over reversed(window), at position i
RECURSIVE relevant_loop(_, _, _, _)
relevant_loop(window, i, exclude_user_id, relevant) ==
    IF i = 0 THEN relevant
    ELSE IF Truthy(exclude_user_id) /\ window[i].user_id = exclude_user_id
         THEN relevant_loop(window, i - 1, exclude_user_id, relevant)
         ELSE relevant_loop(window, i - 1, exclude_user_id, <<window[i]>> \o relevant)

\* a selection that filters the whole buffer and then takes the last messages
chat_relevant_filter_first(ch, chat_id, max_messages, exclude_user_id) ==
    LET history == touch_chat(ch, chat_id)[chat_id]
        kept == SelectSeq(history, LAMBDA msg : ~(Truthy(exclude_user_id)
                                                   /\ msg.user_id = exclude_user_id))
    IN  PyLast(kept, max_messages)

\* the messages get_chat_context renders
chat_relevant(ch, chat_id, max_messages, exclude_user_id) ==
    LET history == touch_chat(ch, chat_id)[chat_id]
        window == PyLast(history, max_messages)
    IN  relevant_loop(window, Len(window), exclude_user_id, <<>>)

\* the label of a chat line: the name, marked for the bot
ChatName(msg) == IF msg.is_bot THEN <<"bot", msg.user_name>> ELSE <<"", msg.user_name>>

\* GroupContextManager.get_chat_context: the text
get_chat_context(ch, chat_id, max_messages, exclude_user_id) ==
    LET relevant == chat_relevant(ch, chat_id, max_messages, exclude_user_id)
    IN  IF relevant = <<>> THEN <<>>
        ELSE <<Line(<<"", "Nedavnie soobscheniya v chate:">>, <<>>)>> \o
             [i \in 1..Len(relevant) |->
                 Line(ChatName(relevant[i]), Slice(relevant[i].text, 0, 100))]

\* get_combined_context that joins the two contexts unconditionally
get_combined_context_always_joined(uh, ch, chat_id, user_id) ==
    LET user_context == get_user_context(uh, chat_id, user_id, 5)
        chat_context == get_chat_context(ch, chat_id, 10, user_id)
    IN  [user_context |-> user_context,
         chat_context |-> chat_context,
         full_context |-> <<LinesOf(user_context), BlankLine, LinesOf(chat_context)>>]

\* GroupContextManager.get_combined_context: the dictionary it returns
get_combined_context(uh, ch, chat_id, user_id) ==
    LET user_context == get_user_context(uh, chat_id, user_id, 5)
        chat_context == get_chat_context(ch, chat_id, 10, user_id)
    IN  [user_context |-> user_context,
         chat_context |-> chat_context,
         full_context |-> IF user_context # <<>> \/ chat_context # <<>>
                          THEN <<LinesOf(user_context), BlankLine, LinesOf(chat_context)>>
                          ELSE <<>>]

-----------------------------------------------------------------------------
(* tavily_search.py: TavilySearchEngine.  A date is a record of year, month  *)
(* and day.  A raw result is given by what _is_russian_result reads of it:   *)
(* the domain of its url and, of the first 1000 characters of title and      *)
(* content, the number of characters, of Russian letters, of English letters *)
(* and of the listed Russian words that occur.                               *)

max_monthly == 1000

\* the client object set by initialize
TheClient == 1

\* s[:n]
Prefix(s, n) == IF n >= 0 THEN Slice(s, 0, n) ELSE Slice(s, 0, Len(s) + n)

\* three of the domains of the white list, and a domain that is not on it
russian_domains == {"ria.ru", "tass.ru", "habr.com"}
ForeignDomain == "bbc.com"

min_chars == 20
min_percent == 50
min_words == 3

\* TavilySearchEngine._is_russian_result
is_russian_result(result) ==
    \/ result.domain \in russian_domains
    \/ /\ result.total_chars >= min_chars
       /\ \/ result.russian_count * 100 >
                 min_percent * (result.russian_count + result.english_count + 1)
          \/ result.russian_word_count > min_words

\* TavilySearchEngine._check_limits at date now: the engine after the check
\* and what the check returns
tavily_check_limits(engine, now) ==
    LET checked == IF now.month # engine.last_reset.month
                   THEN [engine EXCEPT !.monthly_queries = 0, !.last_reset = now]
                   ELSE engine
    IN  [engine |-> checked, ok |-> ~(checked.monthly_queries >= max_monthly)]

\* a selection that fills up with the other results first
pick_results_others_first(all_results, max_results) ==
    LET russian_results == SelectSeq(all_results, is_russian_result)
        other_results == SelectSeq(all_results, LAMBDA r : ~is_russian_result(r))
    IN  [results |-> Prefix(other_results \o russian_results, max_results),
         total_found |-> Len(all_results),
         russian_found |-> Len(russian_results),
         used_russian |-> russian_results # <<>>]

\* tavily_search.py 153-178 (and 218-241): the response after the filter
pick_results(all_results, max_results) ==
    LET russian_results == SelectSeq(all_results, is_russian_result)
        other_results == SelectSeq(all_results, LAMBDA r : ~is_russian_result(r))
        final_results ==
            IF Len(russian_results) >= max_results
            THEN Prefix(russian_results, max_results)
            ELSE IF russian_results # <<>>
            THEN russian_results \o
                 Prefix(other_results, max_results - Len(russian_results))
            ELSE Prefix(other_results, max_results)
        used_russian == Len(russian_results) >= max_results \/ russian_results # <<>>
    IN  [results |-> final_results,
         total_found |-> Len(all_results),
         russian_found |-> Len(russian_results),
         used_russian |-> used_russian]

\* TavilySearchEngine.search and search_news (the two differ in the query sent
\* to the client only): the engine afterwards, the response, and whether
\* client.search was called.  outcome is what client.search does.
search(engine, now, max_results, outcome) ==
    IF engine.client = None
    THEN [engine |-> engine, response |-> [error |-> "not initialized"], called |-> FALSE]
    ELSE LET checked == tavily_check_limits(engine, now)
         IN  IF ~checked.ok
             THEN [engine |-> checked.engine, response |-> [error |-> "limit exhausted"],
                   called |-> FALSE]
             ELSE IF outcome.raises
             THEN [engine |-> checked.engine, response |-> [error |-> "client"],
                   called |-> TRUE]
             ELSE [engine |-> [checked.engine EXCEPT !.monthly_queries = @ + 1],
                   response |-> pick_results(outcome.results, max_results),
                   called |-> TRUE]

-----------------------------------------------------------------------------
(* rss_news.py: RSSNewsEngine.  A feed entry is its title and its published  *)
(* field; published is absent or a time (year, month, day, hour, minute) in  *)
(* the ISO or the GMT format.                                                *)

max_daily == 1000
per_source == 3

\* the first three keys of self.sources
sources == <<"ria", "tass", "interfax">>

NoDate == [format |-> "none"]

\* RSSNewsEngine._parse_date: "" for no date, else "%d.%m.%Y %H:%M", whose
\* fields have fixed widths: the text is given by its numbers in this order
parse_date(published) ==
    IF published.format = "none" THEN <<>>
    ELSE <<published.day, published.month, published.year,
           published.hour, published.minute>>

\* a < b for two str of the shape parse_date returns
RECURSIVE StrLess(_, _)
StrLess(a, b) ==
    IF b = <<>> THEN FALSE
    ELSE IF a = <<>> THEN TRUE
    ELSE IF Head(a) # Head(b) THEN Head(a) < Head(b)
    ELSE StrLess(Tail(a), Tail(b))

\* RSSNewsEngine._check_limits on the date now: the engine after the check and
\* what the check returns
rss_check_limits(engine, now) ==
    LET checked == IF now # engine.last_reset
                   THEN [engine EXCEPT !.queries_today = 0, !.last_reset = now]
                   ELSE engine
    IN  [engine |-> checked, ok |-> ~(checked.queries_today >= max_daily)]

\* rss_news.py 139-142: the keys of the sources to check, without those that
\* have no src_info
sources_to_check(source) ==
    IF source = "all" THEN sources
    ELSE SelectSeq(<<source>>, LAMBDA k : \E i \in 1..Len(sources) : sources[i] = k)

\* rss_news.py 162-186: the items of the first entries of a feed
items_of(src_key, entries) ==
    LET first == Prefix(entries, per_source)
    IN  [i \in 1..Len(first) |->
            [title |-> first[i].title, date |-> parse_date(first[i].published),
             source_key |-> src_key]]

\* list.sort(key=date, reverse=True): stable, the greatest date first
RECURSIVE insert_desc(_, _)
insert_desc(sorted, item) ==
    IF sorted = <<>> THEN <<item>>
    ELSE IF StrLess(Head(sorted).date, item.date) THEN <<item>> \o sorted
    ELSE <<Head(sorted)>> \o insert_desc(Tail(sorted), item)

RECURSIVE sort_desc(_)
sort_desc(results) ==
    IF results = <<>> THEN <<>>
    ELSE insert_desc(sort_desc(SubSeq(results, 1, Len(results) - 1)),
                     results[Len(results)])

-----------------------------------------------------------------------------
(* State after construction (memory.py 12-15, group_context.py 13-21) and    *)
(* init_db: empty buffers, empty tables                                      *)

ChatIds == {1, 2}

\* the coroutines of one kind that can be suspended at the same time
Calls == 1..MaxCalls
Idle == [pc |-> "idle"]

\* the date at construction
FirstDay == [year |-> 1, month |-> 1, day |-> 1]
OtherChatIds == {3, 4}
BotId == 9
AllUserIds == {0, 1, 2, BotId}

\* update.effective_user.first_name or f"User{user_id}"
first_name(user_id) ==
    IF user_id = 1 THEN "Anna" ELSE IF user_id = 2 THEN "Boris" ELSE "User0"

Init ==
    /\ clock = 0
    /\ short_term = Empty
    /\ user_memory = Empty
    /\ user_history = Empty
    /\ chat_history = Empty
    /\ st_log = [u \in AllUserIds |-> <<>>]
    /\ chat_log = [c \in ChatIds \cup OtherChatIds |-> <<>>]
    /\ last = [op |-> "init"]
    /\ ret = <<>>
    /\ raised = "none"
    /\ sent = <<>>
    /\ handled = 0
    /\ in_flight = [call \in Calls |-> Idle]
    /\ today = FirstDay
    /\ tavily = [client |-> None, monthly_queries |-> 0, last_reset |-> FirstDay]
    /\ rss = [queries_today |-> 0, last_reset |-> FirstDay]
    /\ fetching = [call \in Calls |-> Idle]

\* the history variables after one add_to_short_term / add_message
Logged(log, k, entry) == [log EXCEPT ![k] = Append(@, entry)]

RECURSIVE SumLen(_, _)
SumLen(log, keys) ==
    IF keys = {} THEN 0
    ELSE LET k == CHOOSE x \in keys : TRUE
         IN  Len(log[k]) + SumLen(log, keys \ {k})

\* the number of entries of a sequence that satisfy Test
Count(seq, Test(_)) == Cardinality({i \in 1..Len(seq) : Test(seq[i])})

-----------------------------------------------------------------------------
(* The operations of BotMemory, called directly *)

\* memory.add_to_short_term(user_id, role, message)
AddToShortTerm(user_id, role, message) ==
    /\ short_term' = add_to_short_term(short_term, user_id, role, message, clock)
    /\ st_log' = Logged(st_log, user_id,
                        [role |-> role, content |-> message, timestamp |-> clock])
    /\ clock' = clock + 1
    /\ last' = [op |-> "add_to_short_term", user_id |-> user_id, t0 |-> clock]
    /\ ret' = <<>>
    /\ raised' = "none"
    /\ sent' = <<>>
    /\ UNCHANGED <<user_memory, user_history, chat_history, chat_log, handled,
                   engine_vars>>

\* memory.get_conversation_context(user_id, max_messages)
GetConversationContext(user_id, max_messages) ==
    /\ ret' = get_conversation_context(short_term, user_id, max_messages)
    /\ last' = [op |-> "get_conversation_context", user_id |-> user_id,
                max_messages |-> max_messages, t0 |-> clock]
    /\ raised' = "none"
    /\ sent' = <<>>
    /\ UNCHANGED <<clock, short_term, user_memory, user_history, chat_history,
                   st_log, chat_log, handled,
                   engine_vars>>

\* await memory.remember_fact(user_id, fact_key, fact_value); db_ok: the store
\* answers.  An aiosqlite error leaves the coroutine (no try in 75-103) and the
\* transaction is not committed.
RememberFact(user_id, fact_key, fact_value, db_ok) ==
    /\ user_memory' = IF db_ok
                      THEN remember_fact(user_memory, user_id, fact_key, fact_value, clock)
                      ELSE user_memory
    /\ clock' = IF db_ok THEN clock + 2 ELSE clock
    /\ raised' = IF db_ok THEN "none" ELSE "OperationalError"
    /\ last' = [op |-> "remember_fact", user_id |-> user_id, fact_key |-> fact_key,
                fact_value |-> fact_value, db_ok |-> db_ok, t0 |-> clock,
                was |-> IF fact_key \in DictKeys(stored_facts(user_memory, user_id))
                        THEN DictGet(stored_facts(user_memory, user_id), fact_key).value
                        ELSE <<>>]
    /\ ret' = <<>>
    /\ sent' = <<>>
    /\ UNCHANGED <<short_term, user_history, chat_history, st_log, chat_log, handled,
                   engine_vars>>

\* a remember_fact call runs up to its upsert: SELECT, fetchone, facts[fact_key] = ...
RememberBegin(call, user_id, fact_key, fact_value) ==
    /\ in_flight[call].pc # "selected"
    /\ in_flight' = [in_flight EXCEPT ![call] =
                        [pc |-> "selected", user_id |-> user_id, fact_key |-> fact_key,
                         facts |-> remember_select(user_memory, user_id, fact_key,
                                                   fact_value, clock)]]
    /\ clock' = clock + 1
    /\ last' = [op |-> "remember_fact.select", user_id |-> user_id, fact_key |-> fact_key,
                t0 |-> clock]
    /\ ret' = <<>>
    /\ raised' = "none"
    /\ sent' = <<>>
    /\ UNCHANGED <<short_term, user_memory, user_history, chat_history, st_log, chat_log,
                   handled, today, tavily, rss, fetching>>

\* the call resumes: upsert, commit, return
RememberCommit(call) ==
    /\ in_flight[call].pc = "selected"
    /\ user_memory' = remember_upsert(user_memory, in_flight[call].user_id,
                                      in_flight[call].facts, clock)
    /\ in_flight' = [in_flight EXCEPT ![call].pc = "done"]
    /\ clock' = clock + 1
    /\ last' = [op |-> "remember_fact.upsert", user_id |-> in_flight[call].user_id,
                fact_key |-> in_flight[call].fact_key, t0 |-> clock]
    /\ ret' = <<>>
    /\ raised' = "none"
    /\ sent' = <<>>
    /\ UNCHANGED <<short_term, user_history, chat_history, st_log, chat_log,
                   handled, today, tavily, rss, fetching>>

\* await memory.get_user_facts(user_id)
GetUserFacts(user_id, db_ok) ==
    /\ ret' = IF db_ok THEN get_user_facts(user_memory, user_id) ELSE <<>>
    /\ raised' = IF db_ok THEN "none" ELSE "OperationalError"
    /\ last' = [op |-> "get_user_facts", user_id |-> user_id, t0 |-> clock]
    /\ sent' = <<>>
    /\ UNCHANGED <<clock, short_term, user_memory, user_history, chat_history,
                   st_log, chat_log, handled,
                   engine_vars>>

\* await memory.get_user_context(user_id)
MemoryGetUserContext(user_id, db_ok) ==
    /\ ret' = IF db_ok THEN memory_get_user_context(user_memory, user_id) ELSE <<>>
    /\ raised' = IF db_ok THEN "none" ELSE "OperationalError"
    /\ last' = [op |-> "memory.get_user_context", user_id |-> user_id, t0 |-> clock]
    /\ sent' = <<>>
    /\ UNCHANGED <<clock, short_term, user_memory, user_history, chat_history,
                   st_log, chat_log, handled,
                   engine_vars>>

\* await memory.extract_facts_from_message(user_id, message), where found is
\* extract_facts_from_message(message); db_ops: the number of remember_fact
\* calls the store answers before it fails
ExtractFacts(user_id, message, found, db_ops) ==
    LET done == Min(db_ops, Len(found.calls))
    IN  /\ user_memory' = remember_all(user_memory, user_id, found.calls, done, clock)
        /\ clock' = clock + 2 * done
        /\ raised' = IF found.error # "none" THEN found.error
                     ELSE IF done < Len(found.calls) THEN "OperationalError"
                     ELSE "none"
        /\ last' = [op |-> "extract_facts_from_message", user_id |-> user_id,
                    message |-> message, t0 |-> clock]
        /\ ret' = <<>>
        /\ sent' = <<>>
        /\ UNCHANGED <<short_term, user_history, chat_history, st_log, chat_log, handled,
                   engine_vars>>

-----------------------------------------------------------------------------------------------------------------------------------------------------------------------------------------------------------------------------
(* The operations of GroupContextManager, called directly *)

\* the entry add_message appends to the chat sequence
ChatEntry(user_id, user_name, message, is_bot_response, now) ==
    [user_id |-> user_id, user_name |-> user_name, text |-> message,
     timestamp |-> now, is_bot |-> is_bot_response]

\* group_context.add_message(chat_id, user_id, user_name, message, is_bot_response)
AddMessage(chat_id, user_id, user_name, message, is_bot_response) ==
    /\ user_history' = add_message_user(user_history, chat_id, user_id, message,
                                        is_bot_response, clock)
    /\ chat_history' = add_message_chat(chat_history, chat_id, user_id, user_name,
                                        message, is_bot_response, clock)
    /\ chat_log' = Logged(chat_log, chat_id,
                          ChatEntry(user_id, user_name, message, is_bot_response, clock))
    /\ clock' = clock + 1
    /\ last' = [op |-> "add_message", chat_id |-> chat_id, user_id |-> user_id, t0 |-> clock]
    /\ ret' = <<>>
    /\ raised' = "none"
    /\ sent' = <<>>
    /\ UNCHANGED <<short_term, user_memory, st_log, handled,
                   engine_vars>>

\* group_context.get_user_context(chat_id, user_id, max_messages)
GetUserContext(chat_id, user_id, max_messages) ==
    /\ ret' = get_user_context(user_history, chat_id, user_id, max_messages)
    /\ user_history' = touch_users(user_history, chat_id)
    /\ last' = [op |-> "get_user_context", chat_id |-> chat_id, user_id |-> user_id,
                max_messages |-> max_messages, t0 |-> clock]
    /\ raised' = "none"
    /\ sent' = <<>>
    /\ UNCHANGED <<clock, short_term, user_memory, chat_history, st_log, chat_log, handled,
                   engine_vars>>

\* group_context.get_chat_context(chat_id, max_messages, exclude_user_id)
GetChatContext(chat_id, max_messages, exclude_user_id) ==
    /\ ret' = [text |-> get_chat_context(chat_history, chat_id, max_messages, exclude_user_id),
               relevant |-> chat_relevant(chat_history, chat_id, max_messages, exclude_user_id)]
    /\ chat_history' = touch_chat(chat_history, chat_id)
    /\ last' = [op |-> "get_chat_context", chat_id |-> chat_id,
                max_messages |-> max_messages, exclude_user_id |-> exclude_user_id,
                t0 |-> clock]
    /\ raised' = "none"
    /\ sent' = <<>>
    /\ UNCHANGED <<clock, short_term, user_memory, user_history, st_log, chat_log, handled,
                   engine_vars>>

\* group_context.get_combined_context(chat_id, user_id, user_name, current_message)
GetCombinedContext(chat_id, user_id, user_name, current_message) ==
    /\ ret' = get_combined_context(user_history, chat_history, chat_id, user_id)
    /\ user_history' = add_message_user(user_history, chat_id, user_id, current_message,
                                        FALSE, clock)
    /\ chat_history' = add_message_chat(chat_history, chat_id, user_id, user_name,
                                        current_message, FALSE, clock)
    /\ chat_log' = Logged(chat_log, chat_id,
                          ChatEntry(user_id, user_name, current_message, FALSE, clock))
    /\ clock' = clock + 1
    /\ last' = [op |-> "get_combined_context", chat_id |-> chat_id, user_id |-> user_id,
                current_message |-> current_message, t0 |-> clock]
    /\ raised' = "none"
    /\ sent' = <<>>
    /\ UNCHANGED <<short_term, user_memory, st_log, handled,
                   engine_vars>>

-----------------------------------------------------------------------------
(* The operations of TavilySearchEngine, and the calendar *)

\* what the engines never touch
memory_vars == <<clock, short_term, user_memory, user_history, chat_history,
                st_log, chat_log, handled>>

\* tavily_search.initialize(TAVILY_API_KEY)
TavilyInitialize ==
    /\ tavily' = [tavily EXCEPT !.client = TheClient]
    /\ last' = [op |-> "initialize", t0 |-> clock]
    /\ ret' = <<>>
    /\ raised' = "none"
    /\ sent' = <<>>
    /\ UNCHANGED <<memory_vars, in_flight, today, rss, fetching>>

\* await tavily_search.search(query, max_results) or search_news(query, 7, max_results)
TavilySearch(method, max_results, outcome) ==
    \E r \in {search(tavily, today, max_results, outcome)} :
        /\ tavily' = r.engine
        /\ ret' = r.response
        /\ last' = [op |-> method, max_results |-> max_results, raw |-> outcome.results,
                    raises |-> outcome.raises, called |-> r.called, was |-> tavily,
                    on |-> today, t0 |-> clock]
        /\ raised' = "none"
        /\ sent' = <<>>
        /\ UNCHANGED <<memory_vars, in_flight, today, rss, fetching>>

\* the first day of the month after date
next_month(date) ==
    IF date.month = 12
    THEN [year |-> date.year + 1, month |-> 1, day |-> 1]
    ELSE [year |-> date.year, month |-> date.month + 1, day |-> 1]

\* time passes: a month begins
NextMonth ==
    /\ today.month < MaxMonth
    /\ today' = next_month(today)
    /\ last' = [op |-> "time passes", t0 |-> clock]
    /\ UNCHANGED <<memory_vars, ret, raised, sent, in_flight, tavily, rss, fetching>>

\* time passes: the same day a year later
NextYear ==
    /\ today.year < MaxYear
    /\ today' = [today EXCEPT !.year = @ + 1]
    /\ last' = [op |-> "time passes", t0 |-> clock]
    /\ UNCHANGED <<memory_vars, ret, raised, sent, in_flight, tavily, rss, fetching>>

\* time passes: the next day of the month
NextDay ==
    /\ today.day < MaxDay
    /\ today' = [today EXCEPT !.day = @ + 1]
    /\ last' = [op |-> "time passes", t0 |-> clock]
    /\ UNCHANGED <<memory_vars, ret, raised, sent, in_flight, tavily, rss, fetching>>

-----------------------------------------------------------------------------
(* The operations of RSSNewsEngine.  get_latest_news suspends in every feed  *)
(* fetch (run_in_executor) and nowhere else: a call runs from its start to   *)
(* its first fetch, from the answer of a fetch to the next fetch, and from   *)
(* the answer of the last fetch to its return.                               *)

\* rss_news.py 191-198: sort, count the query, cut
news_return(engine, results, limit) ==
    [engine |-> [engine EXCEPT !.queries_today = @ + 1],
     news |-> Prefix(sort_desc(results), limit)]

\* await rss_news.get_latest_news(source, limit) up to its first fetch, or to
\* its return when it fetches nothing
NewsStart(call, source, limit) ==
    /\ fetching[call].pc = "idle"
    /\ \E checked \in {rss_check_limits(rss, today)} :
       \E todo \in {sources_to_check(source)} :
          IF ~checked.ok
          THEN /\ rss' = checked.engine
               /\ fetching' = fetching
               /\ ret' = <<>>
               /\ last' = [op |-> "get_latest_news", stage |-> "refused", source |-> source,
                           limit |-> limit, seen |-> <<>>, t0 |-> clock]
          ELSE IF todo = <<>>
          THEN /\ rss' = news_return(checked.engine, <<>>, limit).engine
               /\ fetching' = fetching
               /\ ret' = news_return(checked.engine, <<>>, limit).news
               /\ last' = [op |-> "get_latest_news", stage |-> "returned", source |-> source,
                           limit |-> limit, seen |-> <<>>, t0 |-> clock]
          ELSE /\ rss' = checked.engine
               /\ fetching' = [fetching EXCEPT ![call] =
                                  [pc |-> "fetching", source |-> source, limit |-> limit,
                                   todo |-> todo, results |-> <<>>, seen |-> <<>>]]
               /\ ret' = <<>>
               /\ last' = [op |-> "get_latest_news", stage |-> "fetching", source |-> source,
                           limit |-> limit, seen |-> <<>>, t0 |-> clock]
    /\ raised' = "none"
    /\ sent' = <<>>
    /\ UNCHANGED <<memory_vars, in_flight, today, tavily>>

\* the fetch of a suspended call answers with feed (or raises): the call
\* takes the items and goes on to the next source or to its return
NewsFetch(call, feed) ==
    /\ fetching[call].pc = "fetching"
    /\ \E c \in {fetching[call]} :
       \E results \in {IF feed.raises \/ feed.entries = <<>> THEN c.results
                       ELSE c.results \o items_of(Head(c.todo), feed.entries)} :
       \E seen \in {Append(c.seen, [source_key |-> Head(c.todo), feed |-> feed])} :
          IF Len(c.todo) > 1
          THEN /\ fetching' = [fetching EXCEPT ![call] =
                                  [c EXCEPT !.todo = Tail(c.todo), !.results = results,
                                            !.seen = seen]]
               /\ rss' = rss
               /\ ret' = <<>>
               /\ last' = [op |-> "get_latest_news", stage |-> "fetching",
                           source |-> c.source, limit |-> c.limit, seen |-> seen,
                           t0 |-> clock]
          ELSE /\ fetching' = [fetching EXCEPT ![call] = Idle]
               /\ rss' = news_return(rss, results, c.limit).engine
               /\ ret' = news_return(rss, results, c.limit).news
               /\ last' = [op |-> "get_latest_news", stage |-> "returned",
                           source |-> c.source, limit |-> c.limit, seen |-> seen,
                           t0 |-> clock]
    /\ raised' = "none"
    /\ sent' = <<>>
    /\ UNCHANGED <<memory_vars, in_flight, today, tavily>>

-----------------------------------------------------------------------------
(* bot.py: handle_message.  The chat transport (reply_text, send_chat_action, *)
(* get_me) always answers; the LLM call and the store may fail.              *)

bot_username == <<"b">>
Mention == <<"@">> \o bot_username
BotName == "Shmel"
BotReply == <<"d", "a">>

\* a reply recorded in the sequence of the user it answers
reply_user_history_of_sender(uh, chat_id, user_id, now) ==
    add_message_user(uh, chat_id, user_id, BotReply, TRUE, now)

\* bot.py 473: user_history after the reply to user_id is recorded; it goes
\* under context.bot.id
reply_user_history(uh, chat_id, user_id, now) ==
    add_message_user(uh, chat_id, BotId, BotReply, TRUE, now)

\* an except branch that only logs
on_llm_error_silent(r) == [r EXCEPT !.stage = "llm_failed"]

\* bot.py 482-487: the except branch, from the values r the handler has so far
on_llm_error(r) == [r EXCEPT !.stage = "llm_failed", !.sent = <<"apology">>]

\* a fact block read before the facts of the message are extracted
fact_block_before_extraction(tbl_before, tbl_after, user_id) ==
    memory_get_user_context(tbl_before, user_id)

\* bot.py 442: the fact block of the prompt, read from the store as the
\* extraction of 434 has left it
fact_block(tbl_before, tbl_after, user_id) == memory_get_user_context(tbl_after, user_id)

\* a handler that answers every message of a group
should_respond_always(text, reply_to_bot) == TRUE

\* bot.py 391-408: the message is a reply to a message of the bot, or it
\* mentions the bot
should_respond(text, reply_to_bot) == reply_to_bot \/ Contains(text, Mention)

\* bot.py 374-487 for one update.  found is extract_facts_from_message(text);
\* llm_ok: client.chat.completions.create returns; db_ops: the number of store
\* operations that are answered before the store fails.
\* The result names the stage the handler reached and every value it leaves.
handle_message(chat_type, chat_id, user_id, text, found, reply_to_bot, llm_ok, db_ops) ==
    LET user_name == first_name(user_id)
        mentioned == ~reply_to_bot /\ Contains(text, Mention)
        user_message == IF mentioned THEN Strip(Remove(text, Mention)) ELSE text
        \* 413: the message is recorded
        uh1 == add_message_user(user_history, chat_id, user_id, text, FALSE, clock)
        ch1 == add_message_chat(chat_history, chat_id, user_id, user_name, text, FALSE, clock)
        add1 == ChatEntry(user_id, user_name, text, FALSE, clock)
        t1 == clock + 1
        \* 434: the facts are extracted
        done == Min(db_ops, Len(found.calls))
        um2 == remember_all(user_memory, user_id, found.calls, done, t1)
        t2 == t1 + 2 * done
        \* 437: the group context is read, and the message recorded again
        context_data == get_combined_context(uh1, ch1, chat_id, user_id)
        uh3 == add_message_user(uh1, chat_id, user_id, text, FALSE, t2)
        ch3 == add_message_chat(ch1, chat_id, user_id, user_name, text, FALSE, t2)
        add3 == ChatEntry(user_id, user_name, text, FALSE, t2)
        t3 == t2 + 1
        \* 442: the fact block
        user_facts == fact_block(user_memory, um2, user_id)
        \* 445-464: what is sent to the LLM
        prompt == [full_context |-> context_data.full_context,
                   user_facts |-> user_facts,
                   reply_note |-> reply_to_bot,
                   question |-> IF user_message # <<>> THEN user_message ELSE text]
        \* 473-474: the reply is recorded
        uh4 == reply_user_history(uh3, chat_id, user_id, t3)
        ch4 == add_message_chat(ch3, chat_id, BotId, BotName, BotReply, TRUE, t3)
        add4 == ChatEntry(BotId, BotName, BotReply, TRUE, t3)
        turn4 == [role |-> "assistant", content |-> BotReply, timestamp |-> t3 + 1]
        st4 == add_to_short_term(short_term, user_id, "assistant", BotReply, t3 + 1)
        same == [clock |-> clock, short_term |-> short_term, user_memory |-> user_memory,
                 user_history |-> user_history, chat_history |-> chat_history,
                 adds |-> <<>>, turns |-> <<>>, prompt |-> <<>>,
                 raised |-> "none", sent |-> <<>>, stage |-> "ignored"]
        recorded == [same EXCEPT !.clock = t1, !.user_history = uh1, !.chat_history = ch1,
                                 !.adds = <<add1>>]
        extracted == [recorded EXCEPT !.clock = t2, !.user_memory = um2]
        combined == [extracted EXCEPT !.clock = t3, !.user_history = uh3,
                                      !.chat_history = ch3, !.adds = <<add1, add3>>]
    IN  IF chat_type = "private" \/ chat_type \notin {"group", "supergroup"}
        THEN same
        ELSE IF ~should_respond(text, reply_to_bot)
        THEN [recorded EXCEPT !.stage = "observed"]
        ELSE IF user_message = <<>> /\ Contains(text, Mention)
        THEN [recorded EXCEPT !.stage = "asked", !.sent = <<"ask_question">>]
        ELSE IF found.error # "none"
        THEN [recorded EXCEPT !.stage = "extract_raised", !.raised = found.error]
        ELSE IF done < Len(found.calls)
        THEN [extracted EXCEPT !.stage = "remember_raised", !.raised = "OperationalError"]
        ELSE IF db_ops < Len(found.calls) + 1
        THEN [combined EXCEPT !.stage = "facts_raised", !.raised = "OperationalError"]
        ELSE IF ~llm_ok
        THEN on_llm_error([combined EXCEPT !.prompt = prompt])
        ELSE [combined EXCEPT !.stage = "replied", !.prompt = prompt,
                              !.clock = t3 + 2, !.user_history = uh4, !.chat_history = ch4,
                              !.adds = <<add1, add3, add4>>, !.turns = <<turn4>>,
                              !.short_term = st4, !.sent = <<"reply">>]

\* app.add_handler(MessageHandler(filters.TEXT & ~filters.COMMAND, handle_message)):
\* one update is handled
HandleMessage(chat_type, chat_id, user_id, text, found, reply_to_bot, llm_ok, db_ops) ==
    \E r \in {handle_message(chat_type, chat_id, user_id, text, found, reply_to_bot,
                            llm_ok, db_ops)} :
        /\ clock' = r.clock
        /\ short_term' = r.short_term
        /\ user_memory' = r.user_memory
        /\ user_history' = r.user_history
        /\ chat_history' = r.chat_history
        /\ st_log' = [st_log EXCEPT ![user_id] = @ \o r.turns]
        /\ chat_log' = [chat_log EXCEPT ![chat_id] = @ \o r.adds]
        /\ last' = [op |-> "handle_message", chat_id |-> chat_id, user_id |-> user_id,
                    text |-> text, reply_to_bot |-> reply_to_bot, stage |-> r.stage,
                    t0 |-> clock]
        /\ ret' = r.prompt
        /\ raised' = r.raised
        /\ sent' = r.sent
        /\ handled' = handled + 1
        /\ UNCHANGED engine_vars

-----
(* SpecShort: the Short-Term Dialogue Buffer under calls of its operations *)

\* max_messages: 1, the default 5, and more than the buffer holds
ConvLimits == {1, 2, 5, 12}

\* a message of 101 characters
LongText == [i \in 1..(content_limit + 1) |-> IF i <= content_limit THEN "a" ELSE "b"]

\* the calls so far other than a "user" turn of the first user
OtherTurns ==
    SumLen(st_log, UserIds \ {1}) + Count(st_log[1], LAMBDA t : t.role # "user")

\* the users write the short message, the bot's replies are long
AddTurn ==
    \E user_id \in UserIds, role \in Roles :
        /\ SumLen(st_log, UserIds) < MaxTurns
        /\ (user_id # 1 \/ role # "user") => OtherTurns < MaxOther
        /\ AddToShortTerm(user_id, role, IF role = "user" THEN Privet ELSE LongText)

\* the first user's context is read with every limit, the second user's with
\* the default
ReadTurns ==
    \E user_id \in UserIds, max_messages \in ConvLimits :
        /\ user_id # 1 => max_messages = 5
        /\ GetConversationContext(user_id, max_messages)

ShortNext == AddTurn \/ ReadTurns

SpecShort == Init /\ [][ShortNext]_vars

-----------------------------------------------------------------------------
(* SpecFacts: the Fact Store under calls of its operations *)

FactKeys == {"name", "city", "interest"}
FactValues == {Parij, Lion}

Remember ==
    \E user_id \in UserIds, fact_key \in FactKeys, fact_value \in FactValues,
       db_ok \in BOOLEAN :
        /\ clock < 2 * MaxFactOps
        /\ RememberFact(user_id, fact_key, fact_value, db_ok)

ReadFacts ==
    \E user_id \in UserIds, db_ok \in BOOLEAN : GetUserFacts(user_id, db_ok)

ReadFactContext ==
    \E user_id \in UserIds, db_ok \in BOOLEAN : MemoryGetUserContext(user_id, db_ok)

FactsNext == Remember \/ ReadFacts \/ ReadFactContext

SpecFacts == Init /\ [][FactsNext]_vars

-----------------------------------------------------------------------------
(* SpecRace: remember_fact calls that overlap, as under concurrent dispatch *)

RaceBegin ==
    \E call \in Calls, user_id \in {1}, fact_key \in {"name", "city"} :
        /\ clock < 2 * MaxRaceOps
        /\ RememberBegin(call, user_id, fact_key, Parij)

RaceCommit == \E call \in Calls : RememberCommit(call)

RaceNext == RaceBegin \/ RaceCommit \/ ReadFacts

SpecRace == Init /\ [][RaceNext]_vars

-----------------------------------------------------------------------------
(* SpecQuota: the monthly quota of the search engine, searched up to its limit *)

SearchMethods == {"search", "search_news"}

\* a raw result of each kind: on the white list; mostly Russian letters;
\* four listed words; English; Russian but shorter than 20 characters
Kinds == {"domain", "letters", "words", "english", "short"}
Result(kind, title) ==
    [title |-> title,
     domain |-> IF kind = "domain" THEN "ria.ru" ELSE ForeignDomain,
     total_chars |-> IF kind = "short" THEN 10 ELSE IF kind = "domain" THEN 5 ELSE 40,
     russian_count |-> IF kind = "letters" THEN 20 ELSE IF kind \in {"words", "short"} THEN 10
                       ELSE 0,
     english_count |-> IF kind \in {"letters", "domain"} THEN 5
                       ELSE IF kind = "short" THEN 0 ELSE 25,
     russian_word_count |-> IF kind = "words" THEN 4 ELSE IF kind = "english" THEN 0 ELSE 1]

\* what client.search does: it raises, or answers with results
Raises == [raises |-> TRUE, results |-> <<>>]
Answers(results) == [raises |-> FALSE, results |-> results]

QuotaSearch ==
    \E method \in SearchMethods, outcome \in {Raises, Answers(<<Result("domain", 1)>>)} :
        TavilySearch(method, 5, outcome)

QuotaNext == TavilyInitialize \/ QuotaSearch \/ NextMonth \/ NextYear

SpecQuota == Init /\ [][QuotaNext]_vars

-----------------------------------------------------------------------------
(* SpecSearch: the selection of results of an initialized engine, over every *)
(* short response                                                            *)

\* the raw responses: every list of up to MaxRaw results that are on the white
\* list, English or short; three lists with results that are Russian by their
\* text; and the lists of six results on the white list with at most one
\* English result among them
RawLists ==
    UNION {{[i \in 1..n |-> Result(kinds[i], i)] :
               kinds \in [1..n -> {"domain", "english", "short"}]} : n \in 0..MaxRaw}
    \cup {<<Result("words", 1)>>,
          <<Result("english", 1), Result("letters", 2)>>,
          <<Result("letters", 1), Result("english", 2), Result("words", 3)>>}
    \cup {[i \in 1..6 |-> Result(IF i = p THEN "english" ELSE "domain", i)] : p \in 0..6}

\* max_results: none, one, two, and the default
MaxResults == {0, 1, 2, 5}

SearchCall ==
    \E method \in SearchMethods, max_results \in MaxResults, results \in RawLists :
        /\ tavily.client = TheClient
        /\ tavily.monthly_queries < MaxSearches
        /\ TavilySearch(method, max_results, Answers(results))

SearchNext == TavilyInitialize \/ SearchCall

SpecSearch == Init /\ [][SearchNext]_vars

-----------------------------------------------------------------------------
(* SpecDaily: the daily count of the news engine, queried up to its limit by *)
(* calls that may overlap                                                    *)

\* what a fetch does: it raises, or answers with entries
FeedRaises == [raises |-> TRUE, entries |-> <<>>]
Feed(entries) == [raises |-> FALSE, entries |-> entries]

DailyStart == \E call \in Calls : NewsStart(call, "ria", 5)

DailyFetch == \E call \in Calls : NewsFetch(call, FeedRaises)

DailyNext == DailyStart \/ DailyFetch \/ NextDay

SpecDaily == Init /\ [][DailyNext]_vars

-----------------------------------------------------------------------------
(* SpecNews: what get_latest_news returns, over a few feeds *)

\* an entry published at a time in the GMT format, and one without a date
Entry(title, day, month, year, hour) ==
    [title |-> title,
     published |-> [format |-> "gmt", year |-> year, month |-> month, day |-> day,
                    hour |-> hour, minute |-> 0]]
Undated(title) == [title |-> title, published |-> NoDate]

\* feeds list their entries from the newest to the oldest: one of four
\* entries within two days, one that spans a year, one with an undated entry
Feeds ==
    {FeedRaises, Feed(<<>>),
     Feed(<<Entry(1, 2, 12, 2025, 9), Entry(2, 1, 12, 2025, 18),
            Entry(3, 1, 12, 2025, 9), Entry(4, 1, 12, 2025, 8)>>),
     Feed(<<Entry(5, 1, 12, 2025, 9), Entry(6, 31, 1, 2025, 10)>>),
     Feed(<<Undated(7), Entry(8, 1, 12, 2025, 7)>>)}

\* "all", two keys of self.sources and a key that is not in it
NewsSources == {"all", "ria", "tass", "nope"}

\* limit: none, one, the 5 of /from and the 10 of /news
NewsLimits == {0, 1, 5, 10}

NewsCall ==
    \E source \in NewsSources, limit \in NewsLimits :
        /\ rss.queries_today < MaxNews
        /\ NewsStart(1, source, limit)

NewsAnswer == \E feed \in Feeds : NewsFetch(1, feed)

NewsNext == NewsCall \/ NewsAnswer

SpecNews == Init /\ [][NewsNext]_vars

-----------------------------------------------------------------------------
(* SpecExtract: the Fact Extractor under calls with a few messages *)

\* "menya zovut Anna", "menya zovut", "Q jivu v Parije, lyblu kotov", "privet"
TextName == menya_zovut \o <<" ">> \o Anna
TextNoName == menya_zovut
TextCity == <<"Q", " ">> \o jivu_v \o <<" ">> \o Parij \o <<"e", ",", " ">>
            \o interests[1] \o <<" ", "k", "o", "t", "o", "v">>
\* "Menq Zovut ANNA!", "menya zovut menya zovut Anna"
TextNameLoud == <<"M","e","n","q"," ","Z","o","v","u","t"," ","A","N","N","A","!">>
TextNameTwice == menya_zovut \o <<" ">> \o menya_zovut \o <<" ">> \o Anna
\* "jivu v Lione, q iz ab!", "idu v Parij"
TextShortCity == jivu_v \o <<" ">> \o Lion \o <<"e", ",", " ">> \o ya_iz \o <<" ", "a", "b", "!">>
TextNoTrigger == <<"i", "d", "u", " ", "v", " ">> \o Parij
\* "rabotay pilotom, Lyblu Kotov. da", "lyblu kotov. rabotay tam"
TextTwoVerbs == interests[4] \o <<" ", "p", "i", "l", "o", "t", "o", "m", ",", " ">>
                \o <<"L", "y", "b", "l", "y", " ", "K", "o", "t", "o", "v", ".", " ", "d", "a">>
TextShortTopic == interests[1] \o <<" ", "k", "o", "t", "o", "v", ".", " ">>
                  \o interests[4] \o <<" ", "t", "a", "m">>
ExtractTexts ==
    {TextName, TextNoName, TextCity, Privet, TextNameLoud, TextNameTwice,
     TextShortCity, TextNoTrigger, TextTwoVerbs, TextShortTopic}

\* the calls: who, the message and the number of remember_fact calls the store
\* answers.  The first user sends every message to a store that answers; the
\* store fails at any point of the message with two facts.
ExtractInputs ==
    {<<1, message, MaxDbOps>> : message \in ExtractTexts}
    \cup {<<user_id, TextCity, db_ops>> : user_id \in UserIds, db_ops \in 0..MaxDbOps}
    \cup {<<2, TextName, MaxDbOps>>}

Extract ==
    \E input \in ExtractInputs :
        \E found \in {extract_facts_from_message(input[2])} :
            /\ clock < 2 * MaxExtracts
            /\ ExtractFacts(input[1], input[2], found, input[3])

ExtractNext == Extract \/ ReadFacts \/ ReadFactContext

SpecExtract == Init /\ [][ExtractNext]_vars

-----------------------------------------------------------------------------
(* SpecGroup: the Group Context Tracker filled past its capacities.  Most    *)
(* messages are the first user's in the first chat; a bounded number of      *)
(* operations are by somebody else, in the other chat, or whole updates.     *)

\* the senders: user id and is_bot_response
Senders == {<<1, FALSE>>, <<2, FALSE>>, <<BotId, TRUE>>}

Hi == <<"a">>
TextAsk == Mention \o <<" ">> \o Privet

AllLen == SumLen(chat_log, ChatIds)

\* the operations so far that are not a plain message of the first user
VariedOps == handled + Len(SelectSeq(chat_log[1], LAMBDA e : e.user_id = 2))

CapAdd ==
    \E user_id \in UserIds :
        /\ AllLen < MaxAdds
        /\ user_id # 1 => VariedOps < MaxVaried
        /\ AddMessage(1, user_id, first_name(user_id), Hi, FALSE)

CapCombine ==
    \E user_id \in UserIds :
        /\ AllLen < MaxAdds
        /\ user_id # 1 => VariedOps < MaxVaried
        /\ GetCombinedContext(1, user_id, first_name(user_id), Hi)

\* a whole update of the first user in the first chat
CapHandle ==
    \E text \in {Hi, TextAsk} :
        /\ AllLen + 3 <= MaxAdds
        /\ VariedOps < MaxVaried
        /\ HandleMessage("group", 1, 1, text, extract_facts_from_message(text),
                         FALSE, TRUE, MaxDbOps)

GroupNext == CapAdd \/ CapCombine \/ CapHandle

SpecGroup == Init /\ [][GroupNext]_vars

-----------------------------------------------------------------------------
(* SpecCtx: the Group Context Tracker under any short sequence of calls *)

CtxSenders == Senders \cup {<<0, FALSE>>}
ChatLimits == {2, 10}

\* the text of a message names its chat and its sender
Digits == <<"0", "1", "2", "3", "4", "5", "6", "7", "8", "9">>
CtxText(chat_id, user_id) == <<Digits[chat_id + 1], Digits[user_id + 1]>>

\* everybody writes in chat 1; in chat 2 only the first user does
CtxAdd ==
    \E chat_id \in ChatIds, sender \in CtxSenders :
        /\ AllLen < MaxCtxAdds
        /\ chat_id # 1 => sender[1] = 1
        /\ AddMessage(chat_id, sender[1], first_name(sender[1]),
                      CtxText(chat_id, sender[1]), sender[2])

CtxCombine ==
    \E chat_id \in ChatIds, user_id \in {0, 1, 2} :
        /\ AllLen < MaxCtxAdds
        /\ chat_id # 1 => user_id = 1
        /\ GetCombinedContext(chat_id, user_id, first_name(user_id),
                              CtxText(chat_id, user_id))

CtxReadUser ==
    \E chat_id \in ChatIds, user_id \in {0, 1, 2} :
        /\ chat_id # 1 => user_id = 1
        /\ GetUserContext(chat_id, user_id, 5)

CtxReadChat ==
    \E chat_id \in ChatIds, max_messages \in ChatLimits,
       exclude_user_id \in {None, 0, 1, 2} :
        GetChatContext(chat_id, max_messages, exclude_user_id)

CtxNext == CtxAdd \/ CtxCombine \/ CtxReadUser \/ CtxReadChat

SpecCtx == Init /\ [][CtxNext]_vars

-----------------------------------------------------------------------------
(* Spec: the bot handling updates *)

\* update.effective_chat.type: chats 1 and 2 are the groups the bot is in,
\* chat 3 is a private chat and chat 4 a channel
chat_type(chat_id) ==
    IF chat_id = 1 THEN "group"
    ELSE IF chat_id = 2 THEN "supergroup"
    ELSE IF chat_id = 3 THEN "private"
    ELSE "channel"

TextMention == Mention
TextAskName == Mention \o <<" ">> \o TextName
TextAskNoName == Mention \o <<" ">> \o TextNoName
TextAskCity == Mention \o <<" ">> \o TextCity
UpdateTexts == {Privet, TextAsk, TextMention, TextAskName, TextAskNoName, TextAskCity}

\* who writes where: both users are in chat 1, the first user also in chat 2
Members == {<<1, 1>>, <<1, 2>>, <<2, 1>>}

\* the text of an update and whether it is a reply to a message of the bot
GroupMessages ==
    {<<text, FALSE>> : text \in UpdateTexts \cup {TextName}}
    \cup {<<Privet, TRUE>>, <<TextAsk, TRUE>>}

\* the updates of the groups: the first user sends every message in chat 1,
\* the other members a greeting, a question and a question with their name
GroupUpdates ==
    {<<member, message>> : member \in {<<1, 1>>}, message \in GroupMessages}
    \cup {<<member, <<text, FALSE>>>> :
              member \in Members \ {<<1, 1>>}, text \in {Privet, TextAsk, TextAskName}}

\* a text message in a group
GroupUpdate ==
    \E update \in GroupUpdates :
        \E found \in {extract_facts_from_message(update[2][1])} :
            \E llm_ok \in BOOLEAN, db_ops \in 0..MaxDbOps :
                /\ handled < MaxUpdates
                /\ HandleMessage(chat_type(update[1][1]), update[1][1], update[1][2],
                                 update[2][1], found, update[2][2], llm_ok, db_ops)

\* a text message in a private chat or a channel
OtherUpdate ==
    \E chat_id \in OtherChatIds :
        /\ handled < MaxUpdates
        /\ HandleMessage(chat_type(chat_id), chat_id, 1, TextAskName,
                         extract_facts_from_message(TextAskName), FALSE, TRUE, MaxDbOps)

Next == GroupUpdate \/ OtherUpdate

Spec == Init /\ [][Next]_vars

-----------------------------------------------------------------------------
(* SpecReads: the read operations of both stores next to a few writes *)

MaxReadOps == 2

\* the writes that fill the stores before the reads
ReadsRemember ==
    \E user_id \in UserIds, fact_key \in {"name", "city"} :
        /\ clock < MaxReadOps
        /\ RememberFact(user_id, fact_key, Parij, TRUE)

ReadsAddTurn ==
    \E user_id \in UserIds :
        /\ clock < MaxReadOps
        /\ AddToShortTerm(user_id, "user", Privet)

ReadsAdd ==
    \E chat_id \in ChatIds, user_id \in UserIds :
        /\ clock < MaxReadOps
        /\ AddMessage(chat_id, user_id, first_name(user_id), Hi, FALSE)

ReadsCombine ==
    \E chat_id \in ChatIds, user_id \in UserIds :
        /\ clock < MaxReadOps
        /\ GetCombinedContext(chat_id, user_id, first_name(user_id), Hi)

ReadsNext ==
    \/ ReadsRemember \/ ReadsAddTurn \/ ReadsAdd \/ ReadsCombine
    \/ ReadFacts \/ ReadFactContext \/ ReadTurns \/ CtxReadUser \/ CtxReadChat

SpecReads == Init /\ [][ReadsNext]_vars

-----
(* Claims *)

\* C1: after any sequence of add_to_short_term calls a user's buffer holds
\* exactly the last min(n, 10) turns passed for that user, in the order of the
\* calls, and never more than 10
C1_ShortTermKeepsLastTen ==
    \A u \in AllUserIds :
        IF u \in DOMAIN short_term
        THEN /\ short_term[u] = LastN(st_log[u], max_short_term)
             /\ Len(short_term[u]) <= max_short_term
             /\ st_log[u] # <<>>
        ELSE st_log[u] = <<>>

\* an 11th turn has been added for a user whose buffer was full
C1_Witness ==
    \E u \in DOMAIN short_term :
        /\ Len(st_log[u]) > max_short_term
        /\ last.op = "add_to_short_term" /\ last.user_id = u
        /\ short_term[u][1] = st_log[u][Len(st_log[u]) - max_short_term + 1]

\* the messages of one user among those added to a chat, as the user sequence
\* stores them
UserEntries(log, user_id) ==
    LET mine == SelectSeq(log, LAMBDA e : e.user_id = user_id)
    IN  [i \in 1..Len(mine) |->
            [text |-> mine[i].text, timestamp |-> mine[i].timestamp, is_bot |-> mine[i].is_bot]]

\* C2: after any sequence of add_message calls (direct, through
\* get_combined_context or through handle_message) the chat sequence holds the
\* last min(n, 30) messages added to the chat and every (chat, user) sequence
\* the last min(k, 10) messages of that user in that chat, in the order added
C2_GroupBuffersKeepLast ==
    \A c \in ChatIds :
        /\ IF c \in DOMAIN chat_history
           THEN /\ chat_history[c] = LastN(chat_log[c], max_chat_history)
                /\ Len(chat_history[c]) <= max_chat_history
           ELSE chat_log[c] = <<>>
        /\ \A u \in AllUserIds :
               IF c \in DOMAIN user_history /\ u \in DOMAIN user_history[c]
               THEN /\ user_history[c][u] = LastN(UserEntries(chat_log[c], u), max_history_per_user)
                    /\ Len(user_history[c][u]) <= max_history_per_user
               ELSE UserEntries(chat_log[c], u) = <<>>

\* the first chat has overflowed, the first user's sequence too, and a second
\* sender's message is still in the chat sequence
C2_Witness ==
    /\ Len(chat_log[1]) > max_chat_history
    /\ Len(chat_history[1]) = max_chat_history
    /\ Len(user_history[1][1]) = max_history_per_user
    /\ chat_history[1][1] = chat_log[1][Len(chat_log[1]) - max_chat_history + 1]
    /\ \E i \in 1..max_chat_history : chat_history[1][i].user_id # 1

\* C3: a successful remember_fact(u, k, v) leaves k bound to v, leaves every
\* other key of u as it was, and gives k a timestamp later than the one it had
C3_LastWriteWins ==
    [][(last'.op = "remember_fact" /\ raised' = "none") =>
        LET u == last'.user_id
            k == last'.fact_key
            before == get_user_facts(user_memory, u)
            after == get_user_facts(user_memory', u)
        IN  /\ DictKeys(after) = DictKeys(before) \cup {k}
            /\ DictGet(after, k).value = last'.fact_value
            /\ \A j \in DictKeys(before) \ {k} : DictGet(after, j) = DictGet(before, j)
            /\ k \in DictKeys(before) =>
                   DictGet(after, k).updated > DictGet(before, k).updated
       ]_vars

\* a key that was written before a second key of the same user has been
\* written again
C3_Witness ==
    /\ last.op = "remember_fact" /\ raised = "none"
    /\ LET facts == get_user_facts(user_memory, last.user_id)
       IN  /\ Len(facts) >= 2
           /\ DictPos(facts, last.fact_key) < Len(facts)
           /\ DictGet(facts, last.fact_key).updated = last.t0
           /\ DictGet(facts, last.fact_key).value = last.fact_value

\* C4: get_chat_context(chat_id, exclude_user_id=X) renders no message of X,
\* for every user id X (0 included), and renders the messages in the order
\* they were added
C4_ExcludedAuthorAbsent ==
    (last.op = "get_chat_context" /\ last.exclude_user_id # None) =>
        /\ \A i \in 1..Len(ret.relevant) : ret.relevant[i].user_id # last.exclude_user_id
        /\ \A i, j \in 1..Len(ret.relevant) :
               i < j => ret.relevant[i].timestamp < ret.relevant[j].timestamp

\* C5: get_combined_context reads both contexts from the buffers as they are
\* before the call, returns full_context "" exactly when both are empty (so
\* also when both sequences are empty), and then appends the message as the
\* newest entry of both sequences, where later reads find it
C5_CombinedReadsThenAppends ==
    [][(last'.op = "get_combined_context") =>
        LET c == last'.chat_id
            u == last'.user_id
            chat_before == IF c \in DOMAIN chat_history THEN chat_history[c] ELSE <<>>
            user_before == IF c \in DOMAIN user_history /\ u \in DOMAIN user_history[c]
                           THEN user_history[c][u] ELSE <<>>
            chat_after == chat_history'[c]
            user_after == user_history'[c][u]
            read_after == get_user_context(user_history', c, u, 5)
        IN  /\ ret'.user_context = get_user_context(user_history, c, u, 5)
            /\ ret'.chat_context = get_chat_context(chat_history, c, 10, u)
            /\ (ret'.full_context = <<>>) <=>
                   (ret'.user_context = <<>> /\ ret'.chat_context = <<>>)
            /\ (chat_before = <<>> /\ user_before = <<>>) => ret'.full_context = <<>>
            /\ chat_after[Len(chat_after)] =
                   ChatEntry(u, first_name(u), last'.current_message, FALSE, last'.t0)
            /\ user_after[Len(user_after)] =
                   [text |-> last'.current_message, timestamp |-> last'.t0, is_bot |-> FALSE]
            /\ chat_after = DequeAppend(chat_before, chat_after[Len(chat_after)], max_chat_history)
            /\ read_after[Len(read_after)] = Line("Vy", last'.current_message)
       ]_vars

\* get_combined_context has been called on a chat without history and has
\* returned the empty full_context; the message is now in the chat
C5_Witness ==
    /\ last.op = "get_combined_context"
    /\ ret.full_context = <<>>
    /\ Len(chat_history[last.chat_id]) = 1
    /\ chat_history[last.chat_id][1].text = last.current_message

\* the entries a handler run that started at t0 has left in a sequence
Since(seq, t0) == SelectSeq(seq, LAMBDA e : e.timestamp >= t0)

ShortTermOf(u) == IF u \in DOMAIN short_term THEN short_term[u] ELSE <<>>
ChatOf(c) == IF c \in DOMAIN chat_history THEN chat_history[c] ELSE <<>>
UserOf(c, u) ==
    IF c \in DOMAIN user_history /\ u \in DOMAIN user_history[c]
    THEN user_history[c][u] ELSE <<>>

\* C6: after a successful LLM reply the user's turn and the assistant's turn
\* are both in the user's short-term buffer, in this order, and the
\* assistant's turn is in the chat's group context
C6_BothTurnsRecorded ==
    (last.op = "handle_message" /\ last.stage = "replied") =>
        LET turns == Since(ShortTermOf(last.user_id), last.t0)
        IN  /\ \E i, j \in 1..Len(turns) :
                   /\ i < j
                   /\ turns[i].role = "user"
                   /\ turns[j].role = "assistant" /\ turns[j].content = BotReply
            /\ \E i \in 1..Len(ChatOf(last.chat_id)) :
                   /\ ChatOf(last.chat_id)[i].is_bot
                   /\ ChatOf(last.chat_id)[i].text = BotReply
                   /\ ChatOf(last.chat_id)[i].timestamp >= last.t0

\* C7: when the LLM call fails the handler returns after sending the apology,
\* no buffer has an assistant turn of this run, and the user's message is in
\* the chat sequence and in the user's sequence of that chat
C7_LlmFailureLeavesNoAssistantTurn ==
    (last.op = "handle_message" /\ last.stage = "llm_failed") =>
        /\ sent = <<"apology">>
        /\ raised = "none"
        /\ \A u \in AllUserIds : Since(ShortTermOf(u), last.t0) = <<>>
        /\ \A c \in ChatIds :
               /\ \A i \in 1..Len(ChatOf(c)) :
                      ChatOf(c)[i].timestamp >= last.t0 =>
                          ~ChatOf(c)[i].is_bot /\ ChatOf(c)[i].user_id # BotId
               /\ \A u \in AllUserIds : \A i \in 1..Len(UserOf(c, u)) :
                      UserOf(c, u)[i].timestamp >= last.t0 =>
                          ~UserOf(c, u)[i].is_bot /\ u # BotId
        /\ \E i \in 1..Len(ChatOf(last.chat_id)) :
               /\ ChatOf(last.chat_id)[i].user_id = last.user_id
               /\ ChatOf(last.chat_id)[i].text = last.text
               /\ ChatOf(last.chat_id)[i].timestamp >= last.t0
        /\ \E i \in 1..Len(UserOf(last.chat_id, last.user_id)) :
               /\ UserOf(last.chat_id, last.user_id)[i].text = last.text
               /\ UserOf(last.chat_id, last.user_id)[i].timestamp >= last.t0

\* the LLM call has failed for a user who already had an assistant turn from
\* an earlier update
C7_Witness ==
    /\ last.op = "handle_message" /\ last.stage = "llm_failed"
    /\ sent = <<"apology">>
    /\ ShortTermOf(last.user_id) # <<>>

\* C8: whenever the LLM call or a store operation fails while a triggering
\* message is handled, the exception is caught in handle_message and the
\* apology is sent
C8_EveryFailureAnswered ==
    (last.op = "handle_message"
        /\ last.stage \in {"remember_raised", "facts_raised", "llm_failed"}) =>
        /\ raised = "none"
        /\ sent = <<"apology">>

\* C9: extract_facts_from_message raises for no message text: unless the store
\* fails, the call returns
C9_ExtractionNeverRaises ==
    (last.op = "extract_facts_from_message" /\ raised # "OperationalError") =>
        raised = "none"

\* C10: a remember_fact call during which the store fails returns normally
\* and leaves the table as it was
C10_StoreFailureSilent ==
    [][(last'.op = "remember_fact" /\ ~last'.db_ok) =>
        (raised' = "none" /\ user_memory' = user_memory)]_vars

\* the context reads of both stores
ContextReads ==
    {"get_user_facts", "memory.get_user_context", "get_conversation_context",
     "get_user_context", "get_chat_context", "get_combined_context"}

\* C11: no context read changes the fact mapping of any user; of the reads
\* only get_combined_context changes any state, and it changes the group
\* buffers only
C11_ReadsChangeNothingElse ==
    [][(last'.op \in ContextReads) =>
        /\ user_memory' = user_memory
        /\ short_term' = short_term
        /\ last'.op # "get_combined_context" =>
               /\ user_history' = user_history
               /\ chat_history' = chat_history
       ]_vars

\* C12: BotMemory.get_user_context(u) is the empty string exactly when
\* get_user_facts(u) is empty; for a user with facts it is a heading followed
\* by one line per stored key, in the order of the keys, with the key's value
C12_FactContextEmptyIffNoFacts ==
    /\ \A u \in UserIds :
           LET facts == get_user_facts(user_memory, u)
               text == memory_get_user_context(user_memory, u)
           IN  /\ (text = <<>>) <=> (facts = <<>>)
               /\ facts # <<>> =>
                      /\ Len(text) = Cardinality(DictKeys(facts)) + 1
                      /\ \A i \in 1..Len(facts) : text[i + 1][2] = facts[i][2].value
    /\ (last.op = "memory.get_user_context" /\ raised = "none") =>
           ret = memory_get_user_context(user_memory, last.user_id)

\* the fact block of a user with two facts has been read
C12_Witness ==
    /\ last.op = "memory.get_user_context" /\ raised = "none"
    /\ Cardinality(DictKeys(get_user_facts(user_memory, last.user_id))) = 2
    /\ Len(ret) = 3
    /\ \E u \in UserIds : get_user_facts(user_memory, u) = <<>>

\* the text after the first occurrence of a phrase
After(text, phrase) == Slice(text, Find(text, phrase) + Len(phrase), Len(text))

FactsOf(u) == get_user_facts(user_memory, u)

\* C13: for every message that contains "menya zovut" followed by at least
\* one token, extraction stores under name the first whitespace-delimited
\* token after the trigger, capitalized
C13_NameIsFirstTokenAfterTrigger ==
    (last.op = "extract_facts_from_message" /\ raised # "OperationalError") =>
        LET message_lower == Lower(last.message)
            tokens == Words(After(message_lower, menya_zovut))
        IN  (Contains(message_lower, menya_zovut) /\ tokens # <<>>) =>
                /\ raised = "none"
                /\ "name" \in DictKeys(FactsOf(last.user_id))
                /\ DictGet(FactsOf(last.user_id), "name").value = Capitalize(tokens[1])

\* the key's entry in the stored facts of a user, NoFact without one
NoFact == [value |-> <<>>, updated |-> None]

FactEntry(tbl, u, k) ==
    IF k \in DictKeys(get_user_facts(tbl, u)) THEN DictGet(get_user_facts(tbl, u), k)
    ELSE NoFact

\* C14: extraction stores a city only from a message that contains "q iz" or
\* "jivu v", only the token that follows a word "iz" or "v", stripped of
\* punctuation and capitalized, and only if it is longer than 2; no stored
\* city ever has length 1 or 2
C14_CityOnlyAfterPrepositionAndLong ==
    [][/\ \A u \in UserIds :
              FactEntry(user_memory', u, "city") # NoFact =>
                  Len(FactEntry(user_memory', u, "city").value) > 2
       /\ (last'.op = "extract_facts_from_message"
              /\ FactEntry(user_memory', last'.user_id, "city")
                     # FactEntry(user_memory, last'.user_id, "city")) =>
            \E message_lower \in {Lower(last'.message)} :
            \E words \in {Words(message_lower)} :
            \E city \in {FactEntry(user_memory', last'.user_id, "city").value} :
                /\ Contains(message_lower, ya_iz) \/ Contains(message_lower, jivu_v)
                /\ \E i \in 1..(Len(words) - 1) :
                       /\ words[i] \in {prep_iz, prep_v}
                       /\ city = Capitalize(StripChars(words[i + 1], {".", ",", "!", "?"}))
                /\ Len(city) > 2
      ]_vars

\* a message whose last candidate is two letters and punctuation has been
\* processed: the earlier candidate is the stored city
C14_Witness ==
    /\ last.op = "extract_facts_from_message" /\ raised = "none"
    /\ last.message = TextShortCity
    /\ FactEntry(user_memory, last.user_id, "city") # NoFact
    /\ FactEntry(user_memory, last.user_id, "city").value = Lion \o <<"e">>
    /\ FactEntry(user_memory, last.user_id, "city").updated = last.t0

\* the text up to its first period or comma
UpToStop(text) ==
    LET stops == {i \in 1..Len(text) : text[i] \in {".", ","}}
    IN  IF stops = {} THEN text
        ELSE SubSeq(text, 1, (CHOOSE i \in stops : \A j \in stops : i <= j) - 1)

\* the topic the k-th verb gives in a message: the text of the message from
\* the end of the verb's first occurrence to the next period or comma, trimmed
TopicOf(message, message_lower, k) ==
    Strip(UpToStop(Slice(message, Find(message_lower, interests[k]) + Len(interests[k]),
                         Len(message))))

\* the verbs, by their place in the list, that give an interest in a message
StoringVerbs(message, message_lower) ==
    {k \in 1..Len(interests) :
        Contains(message_lower, interests[k]) /\ Len(TopicOf(message, message_lower, k)) > 3}

\* C15: for each of the four verbs a message contains, extraction takes the
\* text from the end of the verb's first occurrence to the next period or
\* comma, trimmed, and stores it as interest if it is longer than 3; every
\* such verb makes its own remember_fact call, in the order of the list, so
\* the stored interest is that of the last verb of the list that gave one
C15_LastVerbWins ==
    [][(last'.op = "extract_facts_from_message" /\ raised' = "none") =>
        \E message \in {last'.message} :
        \E message_lower \in {Lower(message)} :
        \E storing \in {StoringVerbs(message, message_lower)} :
        \E others \in {Len(name_facts(message_lower).calls) + Len(city_facts(message_lower))} :
            /\ clock' = clock + 2 * (others + Cardinality(storing))
            /\ IF storing = {}
               THEN FactEntry(user_memory', last'.user_id, "interest")
                        = FactEntry(user_memory, last'.user_id, "interest")
               ELSE LET k == CHOOSE i \in storing : \A j \in storing : j <= i
                    IN  FactEntry(user_memory', last'.user_id, "interest")
                            = [value |-> TopicOf(message, message_lower, k),
                               updated |-> clock' - 2]
       ]_vars

\* a message with two verbs has been processed: both made their call and the
\* interest is that of the verb that is later in the list, though earlier in
\* the message
C15_Witness ==
    /\ last.op = "extract_facts_from_message" /\ raised = "none"
    /\ last.message = TextTwoVerbs
    /\ clock = last.t0 + 4
    /\ FactEntry(user_memory, last.user_id, "interest")
           = [value |-> <<"p", "i", "l", "o", "t", "o", "m">>, updated |-> last.t0 + 2]

\* the row of a user in user_memory
RowOf(tbl, u) ==
    IF u \in DOMAIN tbl THEN tbl[u] ELSE [facts |-> <<>>, last_seen |-> None, total_messages |-> 0]

\* C16: remember_fact is idempotent: a successful remember_fact(u, k, v) for
\* a user whose k is already bound to v by an earlier call leaves the row of
\* u (the fact mapping and the other columns) as it was
C16_RememberFactIdempotent ==
    [][(last'.op = "remember_fact" /\ raised' = "none"
           /\ FactEntry(user_memory, last'.user_id, last'.fact_key).value = last'.fact_value) =>
        RowOf(user_memory', last'.user_id) = RowOf(user_memory, last'.user_id)
       ]_vars

\* C16 as the code has it: the repeated call leaves the keys of u and the
\* value of every key as they were, and every other key's timestamp; it gives
\* k a later timestamp, a later last_seen and counts one more in total_messages
C16_RepeatedCallKeepsValues ==
    [][(last'.op = "remember_fact" /\ raised' = "none"
           /\ FactEntry(user_memory, last'.user_id, last'.fact_key).value = last'.fact_value) =>
        LET u == last'.user_id
            k == last'.fact_key
            before == get_user_facts(user_memory, u)
            after == get_user_facts(user_memory', u)
        IN  /\ DictKeys(after) = DictKeys(before)
            /\ \A j \in DictKeys(before) : DictGet(after, j).value = DictGet(before, j).value
            /\ \A j \in DictKeys(before) \ {k} : DictGet(after, j) = DictGet(before, j)
            /\ DictGet(after, k).updated > DictGet(before, k).updated
            /\ RowOf(user_memory', u).last_seen > RowOf(user_memory, u).last_seen
            /\ RowOf(user_memory', u).total_messages = RowOf(user_memory, u).total_messages + 1
            /\ \A w \in UserIds \ {u} : RowOf(user_memory', w) = RowOf(user_memory, w)
       ]_vars

\* remember_fact has been called with the value its key already had, for a
\* user with a second key
C16_Witness ==
    /\ last.op = "remember_fact" /\ raised = "none"
    /\ last.was = last.fact_value
    /\ FactEntry(user_memory, last.user_id, last.fact_key)
           = [value |-> last.fact_value, updated |-> last.t0]
    /\ Cardinality(DictKeys(FactsOf(last.user_id))) = 2
    /\ RowOf(user_memory, last.user_id).total_messages = 3

C18_OnlyTriggeredGroupMessagesAnswered ==
    [][(last'.op = "handle_message") =>
        LET type == chat_type(last'.chat_id)
            in_group == type \in {"group", "supergroup"}
            triggered == last'.reply_to_bot \/ Contains(last'.text, Mention)
            llm_called == ret' # <<>>
        IN  /\ (llm_called \/ sent' # <<>>) => (in_group /\ triggered)
            /\ (in_group /\ ~triggered) =>
                   /\ ~llm_called /\ sent' = <<>> /\ raised' = "none"
                   /\ user_memory' = user_memory
                   /\ short_term' = short_term
                   /\ \E c \in {last'.chat_id} : Len(ChatOf(c)') <= Len(ChatOf(c)) + 1
            /\ type = "private" =>
                   /\ ~llm_called /\ sent' = <<>> /\ raised' = "none"
                   /\ UNCHANGED <<clock, short_term, user_memory, user_history, chat_history>>
       ]_vars

\* a group message that names the user but neither replies to the bot nor
\* mentions it has been handled after the bot had answered somebody: it was
\* recorded and nothing else happened
C18_Witness ==
    /\ last.op = "handle_message" /\ last.stage = "observed"
    /\ chat_type(last.chat_id) \in {"group", "supergroup"}
    /\ ~last.reply_to_bot /\ ~Contains(last.text, Mention)
    /\ Contains(Lower(last.text), menya_zovut)
    /\ handled = 2
    /\ sent = <<>> /\ ret = <<>>
    /\ FactsOf(last.user_id) = <<>>

\* C19: add_message(c, u, ...), called directly or by get_combined_context,
\* changes the chat sequence of c and the sequence of (c, u) only; what
\* get_user_context(c, u) renders are messages added under chat c by user u,
\* and what get_chat_context(c) renders are messages added under chat c
C19_ChatsAndUsersIsolated ==
    [][/\ (last'.op \in {"add_message", "get_combined_context"}) =>
              /\ \A c \in ChatIds \ {last'.chat_id} :
                     /\ ChatOf(c)' = ChatOf(c)
                     /\ \A u \in AllUserIds : UserOf(c, u)' = UserOf(c, u)
              /\ \A u \in AllUserIds \ {last'.user_id} :
                     \A c \in ChatIds : UserOf(c, u)' = UserOf(c, u)
              /\ short_term' = short_term /\ user_memory' = user_memory
       /\ (last'.op = "get_user_context") =>
              \A i \in 2..Len(ret') :
                  ret'[i][2] = CtxText(last'.chat_id, last'.user_id)
       /\ (last'.op = "get_chat_context") =>
              /\ \A i \in 1..Len(ret'.relevant) :
                     ret'.relevant[i].text[1] = Digits[last'.chat_id + 1]
              /\ \A i \in 2..Len(ret'.text) :
                     ret'.text[i][2][1] = Digits[last'.chat_id + 1]
      ]_vars

\* the history of a user has been read in a chat where somebody else has
\* written too, while the other chat has a message as well
C19_Witness ==
    /\ last.op = "get_user_context"
    /\ Len(ret) >= 2
    /\ \E u \in AllUserIds \ {last.user_id} : UserOf(last.chat_id, u) # <<>>
    /\ \E c \in ChatIds \ {last.chat_id} : ChatOf(c) # <<>>

\* C20: a triggering message is handled in this order: the facts are
\* extracted and stored, the context is assembled (group context, then the
\* fact block), the LLM is called, the assistant's turn is recorded in the
\* buffers, the reply is sent.  So the prompt's fact block holds every fact
\* the message disclosed, the prompt's chat context holds no reply of this
\* run, and the clock readings of the steps are in this order.
C20_ExtractionBeforeContextBeforeReply ==
    (last.op = "handle_message" /\ last.stage \in {"replied", "llm_failed"}) =>
        \E calls \in {extract_facts_from_message(last.text).calls} :
        \E chat \in {Since(ChatOf(last.chat_id), last.t0)} :
        \E turns \in {Since(ShortTermOf(last.user_id), last.t0)} :
            LET u == last.user_id
                written == {calls[i][1] : i \in 1..Len(calls)}
                chat_lines == ret.full_context[3]
                earlier_replies == Count(ChatOf(last.chat_id),
                                         LAMBDA e : e.is_bot /\ e.timestamp < last.t0)
            IN  /\ ret.user_facts = memory_get_user_context(user_memory, u)
                /\ \A k \in written :
                       /\ FactEntry(user_memory, u, k).updated > last.t0
                       /\ FactEntry(user_memory, u, k).updated < chat[2].timestamp
                       /\ \E i \in 2..Len(ret.user_facts) :
                              ret.user_facts[i][2] = FactEntry(user_memory, u, k).value
                /\ Len(chat) >= 2
                /\ chat[1].timestamp = last.t0 /\ chat[1].user_id = u
                /\ chat[2].user_id = u /\ chat[2].text = last.text
                /\ Count(chat_lines, LAMBDA l : l[2] = BotReply) = earlier_replies
                /\ IF last.stage = "replied"
                   THEN /\ Len(chat) = 3 /\ chat[3].is_bot
                        /\ chat[3].timestamp > chat[2].timestamp
                        /\ Len(turns) = 1 /\ turns[1].role = "assistant"
                        /\ turns[1].timestamp > chat[3].timestamp
                        /\ sent = <<"reply">>
                   ELSE Len(chat) = 2 /\ turns = <<>> /\ sent = <<"apology">>

\* the bot has answered a message that discloses a city and an interest, in a
\* chat where it had answered before: both facts are in the prompt
C20_Witness ==
    /\ last.op = "handle_message" /\ last.stage = "replied"
    /\ last.text = TextAskCity
    /\ Len(ret.user_facts) >= 3
    /\ FactEntry(user_memory, last.user_id, "city").updated > last.t0
    /\ \E i \in 1..Len(ret.full_context[3]) : ret.full_context[3][i][2] = BotReply
    /\ sent = <<"reply">>

\* C21: handling one group text message records it exactly once, whether or
\* not it triggers a reply: the per-chat sequence and the sender's sequence
\* each gain exactly one entry of the sender for it
C21_RecordedExactlyOnce ==
    (last.op = "handle_message" /\ chat_type(last.chat_id) \in {"group", "supergroup"}) =>
        /\ Count(Since(ChatOf(last.chat_id), last.t0),
                 LAMBDA e : e.user_id = last.user_id /\ e.text = last.text) = 1
        /\ Len(Since(UserOf(last.chat_id, last.user_id), last.t0)) = 1

\* C22: when remember_fact calls of one user with different keys overlap, the
\* fact of every call that has returned is in what get_user_facts returns, in
\* every interleaving
C22_NoFactLostUnderOverlap ==
    \A call \in Calls :
        in_flight[call].pc = "done" =>
            in_flight[call].fact_key \in
                DictKeys(get_user_facts(user_memory, in_flight[call].user_id))

\* the count a search starts from when the counter is reset in every new
\* calendar month (a month of a year)
QuotaBase(engine, now) ==
    IF <<now.year, now.month>> # <<engine.last_reset.year, engine.last_reset.month>>
    THEN 0 ELSE engine.monthly_queries

\* C23: monthly_queries never exceeds max_monthly; search and search_news
\* answer "not initialized" without consuming quota when no client is set,
\* answer "limit exhausted" without calling the client once the counter has
\* reached max_monthly, count exactly one per successful client call and
\* nothing when the client raises, and start from 0 on the first call made in
\* another calendar month than last_reset
C23_MonthlyQuota ==
    [][/\ tavily'.monthly_queries <= max_monthly
       /\ last'.op \in SearchMethods =>
            \E base \in {QuotaBase(tavily, today)} :
                IF tavily.client = None
                THEN /\ ret' = [error |-> "not initialized"]
                     /\ ~last'.called
                     /\ tavily' = tavily
                ELSE IF base >= max_monthly
                THEN /\ ret' = [error |-> "limit exhausted"]
                     /\ ~last'.called
                     /\ tavily'.monthly_queries = base
                ELSE /\ last'.called
                     /\ tavily'.monthly_queries = IF last'.raises THEN base ELSE base + 1
                     /\ last'.raises <=> "error" \in DOMAIN ret'
      ]_vars

\* a search has answered with results
Searched == last.op \in SearchMethods /\ "results" \in DOMAIN ret

\* what C24 says of the response to the raw list last.raw with last.max_results
SelectionAsClaimed ==
    \E raw \in {last.raw} : \E out \in {ret.results} :
        LET n == last.max_results
            russian == Count(raw, is_russian_result)
        IN  /\ Len(out) <= n
            /\ \A i \in 1..Len(out) : out[i].title \in 1..Len(raw) /\ out[i] = raw[out[i].title]
            /\ \A i, j \in 1..Len(out) :
                   i < j =>
                       /\ is_russian_result(out[j]) => is_russian_result(out[i])
                       /\ is_russian_result(out[i]) = is_russian_result(out[j])
                              => out[i].title < out[j].title
            /\ (\E i \in 1..Len(out) : ~is_russian_result(out[i])) => russian < n
            /\ ret.used_russian <=> russian >= 1
            /\ ret.russian_found = russian
            /\ ret.total_found = Len(raw)

C25_DailyCountWithinLimit ==
    [][/\ rss'.queries_today <= max_daily
       /\ (last'.op = "get_latest_news" /\ last'.seen = <<>>
             /\ today = rss.last_reset /\ rss.queries_today >= max_daily) =>
               /\ last'.stage = "refused"
               /\ ret' = <<>>
               /\ fetching' = fetching
      ]_vars

\* the time of a dated item, greatest unit first
Chronological(date) == <<date[3], date[2], date[1], date[4], date[5]>>

C28_TrackerReadsChangeNothing ==
    [][(last'.op \in {"get_user_context", "get_chat_context"}) =>
           /\ user_history' = user_history
           /\ chat_history' = chat_history
      ]_vars

\* C29: in every state reached through handle_message an entry of a chat
\* sequence has is_bot exactly when its user_id is the bot's id, and the
\* sequence of a human user in a chat holds only messages that this user sent
\* there, with is_bot false: get_user_context of a human user has no line of
\* the assistant
C29_BotEntriesUnderBotId ==
    \A c \in ChatIds :
        /\ \A i \in 1..Len(ChatOf(c)) : ChatOf(c)[i].is_bot <=> ChatOf(c)[i].user_id = BotId
        /\ \A u \in UserIds :
               \E mine \in {UserOf(c, u)} : \E context \in {get_user_context(user_history, c, u, 5)} :
                   /\ \A i \in 1..Len(mine) :
                          /\ ~mine[i].is_bot
                          /\ \E j \in 1..Len(chat_log[c]) :
                                 /\ chat_log[c][j].user_id = u
                                 /\ chat_log[c][j].text = mine[i].text
                                 /\ chat_log[c][j].timestamp = mine[i].timestamp
                   /\ \A i \in 2..Len(context) : context[i][1] = "Vy"
        /\ \A i \in 1..Len(UserOf(c, BotId)) : UserOf(c, BotId)[i].is_bot

\* the bot has replied twice to a user in one chat: its replies are in the chat
\* sequence and in the bot's own sequence, and the user's context shows the
\* user's messages only
C29_Witness ==
    /\ last.op = "handle_message" /\ last.stage = "replied" /\ handled = 2
    /\ Len(UserOf(last.chat_id, BotId)) = 2
    /\ Count(ChatOf(last.chat_id), LAMBDA e : e.is_bot) = 2
    /\ Len(UserOf(last.chat_id, last.user_id)) = 4
    /\ Len(get_user_context(user_history, last.chat_id, last.user_id, 5)) = 5

====
